---- MODULE Spec2Model ----
(***************************************************************************)
(* Model of the aggregation-and-tiering engine of the topical-authority    *)
(* analysis tool: processCategorizedData of src/utils/dataUtils.ts.        *)
(*                                                                         *)
(* Representation.                                                         *)
(*  - A label (ContentTheme, Entity, SubEntity) is a string, modelled as a *)
(*    sequence of atoms.  The atom ":" is the colon character; every other *)
(*    atom is a colon-free piece of text.  Template-literal concatenation  *)
(*    is \o and String.prototype.split('::') is Split.                     *)
(*  - A JavaScript object used as a dictionary ({} with string keys) is a  *)
(*    sequence of entries in insertion order, which is the order           *)
(*    Object.entries returns for keys that are not array indices.  Labels  *)
(*    range over strings that are neither array indices nor names of       *)
(*    members of Object.prototype.                                         *)
(*  - A number produced by parseFloat(x.toFixed(2)) is modelled by the     *)
(*    integer number of hundredths (33.33 is 3333).                        *)
(*  - 'Author Name' is the field Author; "" stands for both the empty      *)
(*    string and undefined, which the code treats alike (falsy).           *)
(*  - calls is the record of the invocations of processCategorizedData so  *)
(*    far: the arguments and the value returned, oldest first.             *)
(*  - worksheet is the first sheet of the uploaded file and parsed is     *)
(*    what parseCsv returned or threw for it.                              *)
(*  - app is the state of the App component and job the upload in flight. *)
(***************************************************************************)
EXTENDS Integers, Sequences, FiniteSets, TLC

VARIABLES originalCsvData, categorizedResults, out, pc, calls, worksheet, parsed,
          app, job, localStorage, chatRequests

vars ==
  <<originalCsvData, categorizedResults, out, pc, calls, worksheet, parsed, app, job,
    localStorage, chatRequests>>

----------------------------------------------------------------------------
(* Bounds of the model *)

MaxRows == 2
MaxItems == 2
MaxGroups == 6
MaxExtra == 3
MaxCalls == 3
MaxUploads == 2
MaxArticles == 4
MaxChat == 3
MaxHistory == 2

----------------------------------------------------------------------------
(* Program constants *)

ARTICLE_COUNT_THRESHOLD == 2
TOP_N == 5
DISCOVER_ARTICLE_COUNT_THRESHOLD == 2
DISCOVER_TOP_N == 5
DISCOVER_SLICE == 100
BATCH_SIZE == 200

Delim == <<":", ":">>
Uncategorized == <<"Uncategorized">>
NotApplicable == <<"N/A">>

----------------------------------------------------------------------------
(* Helpers: numbers and sequences *)

MinOf(a, b) == IF a < b THEN a ELSE b

\* Array.prototype.slice(0, n)
Slice(s, n) == SubSeq(s, 1, MinOf(n, Len(s)))

\* Array.prototype.filter: the elements s[i] whose test keep[i] is true, in order
Filter(s, keep) ==
  LET RECURSIVE F(_, _)
      F(lo, hi) == IF lo > hi THEN <<>>
                   ELSE IF lo = hi THEN (IF keep[lo] THEN <<s[lo]>> ELSE <<>>)
                   ELSE F(lo, (lo + hi) \div 2) \o F((lo + hi) \div 2 + 1, hi)
  IN F(1, Len(s))

\* Array.prototype.sort((a, b) => b[f] - a[f]): a stable sort, descending in the
\* field f: element lo..hi are inserted one after the other into the sorted
\* elements before them, each behind the elements that are not smaller
SortDesc(s, f) ==
  LET Ins(x, t) == LET k == Cardinality({j \in 1..Len(t) : t[j][f] >= x[f]})
                   IN SubSeq(t, 1, k) \o <<x>> \o SubSeq(t, k + 1, Len(t))
      RECURSIVE S(_, _, _)
      S(acc, lo, hi) ==
        IF lo > hi THEN acc
        ELSE IF lo = hi THEN Ins(s[lo], acc)
        ELSE LET first == S(acc, lo, (lo + hi) \div 2)
             IN IF Len(first) >= 0 THEN S(first, (lo + hi) \div 2 + 1, hi) ELSE first
  IN S(<<>>, 1, Len(s))

Range(s) == {s[i] : i \in 1..Len(s)}

\* The two non-finite numbers a division by zero yields; they lie outside the
\* range of the hundredths of a quotient of non-negative numbers
NaN == 0 - 1
Infinity == 0 - 2

\* parseFloat((num / den).toFixed(2)) in hundredths, for num >= 0 and den >= 0:
\* toFixed rounds to the nearest hundredth, the larger one on a tie; 0 / 0 is NaN
\* and x / 0 is Infinity
ToFixed2(num, den) ==
  IF den = 0 THEN (IF num = 0 THEN NaN ELSE Infinity)
  ELSE (2 * 100 * num + den) \div (2 * den)

----------------------------------------------------------------------------
(* Strings *)

\* The least index i with s[i..i+1] = "::", or 0
FirstDelim(s) ==
  LET hits == {i \in 1..(Len(s) - 1) : s[i] = ":" /\ s[i + 1] = ":"}
  IN IF hits = {} THEN 0 ELSE CHOOSE i \in hits : \A j \in hits : i <= j

\* key.split('::'): the pieces between the non-overlapping occurrences of the
\* delimiter, found left to right
RECURSIVE Split(_)
Split(s) ==
  LET i == FirstDelim(s)
  IN IF i = 0 THEN <<s>>
     ELSE <<SubSeq(s, 1, i - 1)>> \o Split(SubSeq(s, i + 2, Len(s)))

\* `${theme}::${entity}`
EntityKey(theme, entity) == theme \o Delim \o entity

\* const [parentTheme, entity] = key.split('::')
ParentThemeOf(key) == Split(key)[1]
EntityOf(key) == Split(key)[2]

----------------------------------------------------------------------------
(* Row Merger *)

NoEntry == [found |-> FALSE]

\* Variant of CategorizedMap: the first entry for a url is kept
CategorizedMapFirstWins(items) ==
  LET RECURSIVE M(_, _)
      M(lo, hi) ==
        IF lo > hi THEN <<>>
        ELSE IF lo = hi
        THEN items[lo].url :> [contentTheme |-> items[lo].contentTheme,
                               entity |-> items[lo].entity,
                               subEntity |-> items[lo].subEntity]
        ELSE M(lo, (lo + hi) \div 2) @@ M((lo + hi) \div 2 + 1, hi)
  IN M(1, Len(items))

\* new Map(categorizedResults.map(item => [item.url, {...}])): entries are set in
\* list order, a later entry for a url overwrites the earlier one
CategorizedMap(items) ==
  LET RECURSIVE M(_, _)
      M(lo, hi) ==
        IF lo > hi THEN <<>>
        ELSE IF lo = hi
        THEN items[lo].url :> [contentTheme |-> items[lo].contentTheme,
                               entity |-> items[lo].entity,
                               subEntity |-> items[lo].subEntity]
        ELSE M((lo + hi) \div 2 + 1, hi) @@ M(lo, (lo + hi) \div 2)
  IN M(1, Len(items))

\* categorizedMap.get(row.URL) || { 'Uncategorized', 'Uncategorized', 'N/A' }
Categorization(map, url) ==
  IF url \in DOMAIN map THEN map[url]
  ELSE [contentTheme |-> Uncategorized, entity |-> Uncategorized,
        subEntity |-> NotApplicable]

MergeRow(map, row) ==
  LET c == Categorization(map, row.URL)
  IN [URL |-> row.URL, Clicks |-> row.Clicks, Impressions |-> row.Impressions,
      Author |-> row.Author,
      ContentTheme |-> c.contentTheme, Entity |-> c.entity, SubEntity |-> c.subEntity]

\* Variant of MergedData: an inner join, rows without a classification are dropped
MergedDataMatchedOnly(items, rows) ==
  LET map == CategorizedMap(items)
      kept == Filter(rows, [i \in 1..Len(rows) |-> rows[i].URL \in DOMAIN map])
  IN [i \in 1..Len(kept) |->
        [URL |-> kept[i].URL, Clicks |-> kept[i].Clicks,
         Impressions |-> kept[i].Impressions, Author |-> kept[i].Author,
         ContentTheme |-> map[kept[i].URL].contentTheme,
         Entity |-> map[kept[i].URL].entity, SubEntity |-> map[kept[i].URL].subEntity]]

\* Variant of MergedData: an outer join, a classification without a row adds a
\* row with no clicks and no impressions
MergedDataWithOrphans(items, rows) ==
  LET orphans == Filter(items, [j \in 1..Len(items) |->
                                  \A i \in 1..Len(rows) : rows[i].URL # items[j].url])
      matched == [i \in 1..Len(rows) |->
                    LET js == {j \in 1..Len(items) : items[j].url = rows[i].URL}
                        l == CHOOSE j \in js : \A k \in js : k <= j
                    IN [URL |-> rows[i].URL, Clicks |-> rows[i].Clicks,
                        Impressions |-> rows[i].Impressions, Author |-> rows[i].Author,
                        ContentTheme |-> IF js = {} THEN Uncategorized
                                         ELSE items[l].contentTheme,
                        Entity |-> IF js = {} THEN Uncategorized ELSE items[l].entity,
                        SubEntity |-> IF js = {} THEN NotApplicable
                                      ELSE items[l].subEntity]]
  IN matched \o [j \in 1..Len(orphans) |->
                   [URL |-> orphans[j].url, Clicks |-> 0, Impressions |-> 0,
                    Author |-> "", ContentTheme |-> orphans[j].contentTheme,
                    Entity |-> orphans[j].entity, SubEntity |-> orphans[j].subEntity]]

\* Variant of MergedData: the merged rows are kept in a list that outlives the
\* invocation, so that the rows of the invocation before are still in it
MergedDataAccumulating(items, rows) ==
  LET map == CategorizedMap(items)
      kept == IF calls = <<>> THEN <<>> ELSE calls[Len(calls)].rows
      all == kept \o rows
  IN [i \in 1..Len(all) |-> MergeRow(map, all[i])]

\* originalCsvData.map(row => ...)
MergedData(items, rows) ==
  LET map == CategorizedMap(items)
  IN [i \in 1..Len(rows) |-> MergeRow(map, rows[i])]

----------------------------------------------------------------------------
(* Grouping Aggregator *)

\* Variant of AddToTotals: the clicks of a row replace the sum (= for +=)
AddToTotalsOverwrite(totals, key, row) ==
  IF \E j \in 1..Len(totals) : totals[j].key = key
  THEN [j \in 1..Len(totals) |->
          IF totals[j].key = key
          THEN [key |-> key,
                clicks |-> row.Clicks,
                impressions |-> totals[j].impressions + row.Impressions,
                count |-> totals[j].count + 1]
          ELSE totals[j]]
  ELSE Append(totals, [key |-> key, clicks |-> row.Clicks,
                       impressions |-> row.Impressions, count |-> 1])

\* if (!totals[key]) totals[key] = {0, 0, 0}; then the three += of one row
AddToTotals(totals, key, row) ==
  IF \E j \in 1..Len(totals) : totals[j].key = key
  THEN [j \in 1..Len(totals) |->
          IF totals[j].key = key
          THEN [key |-> key,
                clicks |-> totals[j].clicks + row.Clicks,
                impressions |-> totals[j].impressions + row.Impressions,
                count |-> totals[j].count + 1]
          ELSE totals[j]]
  ELSE Append(totals, [key |-> key, clicks |-> row.Clicks,
                       impressions |-> row.Impressions, count |-> 1])

\* Variant of TotalsBy: the key is read before the loop variable moves on, so
\* that a row is accumulated under the key of the row before it
TotalsByStaleKey(rows, keys, keep) ==
  LET RECURSIVE T(_, _, _)
      T(acc, lo, hi) ==
        IF lo > hi THEN acc
        ELSE IF lo = hi
        THEN (IF keep[lo]
              THEN AddToTotals(acc, keys[IF lo > 1 THEN lo - 1 ELSE lo], rows[lo])
              ELSE acc)
        ELSE LET first == T(acc, lo, (lo + hi) \div 2)
             IN IF first = first THEN T(first, (lo + hi) \div 2 + 1, hi) ELSE first
  IN T(<<>>, 1, Len(rows))

\* rows.forEach(row => ...): row n is accumulated under keys[n] if keep[n]; the
\* rows lo..hi are accumulated in order, the first half before the second
TotalsBy(rows, keys, keep) ==
  LET RECURSIVE T(_, _, _)
      T(acc, lo, hi) ==
        IF lo > hi THEN acc
        ELSE IF lo = hi
        THEN (IF keep[lo] THEN AddToTotals(acc, keys[lo], rows[lo]) ELSE acc)
        ELSE LET first == T(acc, lo, (lo + hi) \div 2)
             IN IF first = first THEN T(first, (lo + hi) \div 2 + 1, hi) ELSE first
  IN T(<<>>, 1, Len(rows))

CompoundKey(row) == EntityKey(row.ContentTheme, row.Entity)

ThemeKeys(rows) == [n \in 1..Len(rows) |-> rows[n].ContentTheme]
CompoundKeys(rows) == [n \in 1..Len(rows) |-> CompoundKey(rows[n])]
GlobalEntityKeys(rows) == [n \in 1..Len(rows) |-> rows[n].Entity]
AuthorKeys(rows) == [n \in 1..Len(rows) |-> rows[n].Author]
Always(rows) == [n \in 1..Len(rows) |-> TRUE]
\* if (row['Author Name'])
HasAuthor(rows) == [n \in 1..Len(rows) |-> rows[n].Author # ""]

\* Variant of themeTotals: rows without a classification are left out of the totals
themeTotalsSkipUncategorized(merged) ==
  TotalsBy(merged, ThemeKeys(merged),
           [n \in 1..Len(merged) |-> merged[n].ContentTheme # Uncategorized])

\* Variant of themeTotals: the 'Uncategorized' bucket exists before any row is read
themeTotalsSeeded(merged) ==
  LET tt == TotalsBy(merged, ThemeKeys(merged), Always(merged))
  IN IF \E j \in 1..Len(tt) : tt[j].key = Uncategorized THEN tt
     ELSE <<[key |-> Uncategorized, clicks |-> 0, impressions |-> 0, count |-> 0]>>
          \o tt

themeTotals(merged) == TotalsBy(merged, ThemeKeys(merged), Always(merged))
entityTotals(merged) == TotalsBy(merged, CompoundKeys(merged), Always(merged))
globalEntityTotals(merged) ==
  TotalsBy(merged, GlobalEntityKeys(merged), Always(merged))
authorTotals(merged) == TotalsBy(merged, AuthorKeys(merged), HasAuthor(merged))

\* totals[key], or NoEntry when the key is absent
Lookup(totals, key) ==
  IF \E j \in 1..Len(totals) : totals[j].key = key
  THEN LET j == CHOOSE j \in 1..Len(totals) : totals[j].key = key
       IN [found |-> TRUE, clicks |-> totals[j].clicks,
           impressions |-> totals[j].impressions, count |-> totals[j].count]
  ELSE NoEntry

----------------------------------------------------------------------------
(* Contribution Normalizer *)

\* Variant of Contribution: the quotient without the guard on the denominator
ContributionUnguarded(x, total) == ToFixed2(100 * x, total)

\* total > 0 ? parseFloat(((x / total) * 100).toFixed(2)) : 0, in hundredths
Contribution(x, total) == IF total > 0 THEN ToFixed2(100 * x, total) ELSE 0

\* themeTotals[row.ContentTheme]?.clicks || 0
ThemeClicksOf(tt, row) ==
  LET e == Lookup(tt, row.ContentTheme) IN IF e.found THEN e.clicks ELSE 0
ThemeImpressionsOf(tt, row) ==
  LET e == Lookup(tt, row.ContentTheme) IN IF e.found THEN e.impressions ELSE 0

\* Variant of categorizedUrlsOf: the denominators are the totals of the row's
\* theme+entity group
categorizedUrlsOfEntityGroup(merged) ==
  LET et == TotalsBy(merged, CompoundKeys(merged), Always(merged))
  IN [i \in 1..Len(merged) |->
        LET e == Lookup(et, CompoundKey(merged[i]))
        IN [URL |-> merged[i].URL, Clicks |-> merged[i].Clicks,
            Impressions |-> merged[i].Impressions, Author |-> merged[i].Author,
            ContentTheme |-> merged[i].ContentTheme, Entity |-> merged[i].Entity,
            SubEntity |-> merged[i].SubEntity,
            Clicks_Contribution_Percentage |->
               IF e.clicks > 0 THEN ToFixed2(100 * merged[i].Clicks, e.clicks) ELSE 0,
            Impressions_Contribution_Percentage |->
               IF e.impressions > 0
               THEN ToFixed2(100 * merged[i].Impressions, e.impressions) ELSE 0]]

categorizedUrlsOf(merged) ==
  LET tt == themeTotals(merged)
  IN [i \in 1..Len(merged) |->
        [URL |-> merged[i].URL, Clicks |-> merged[i].Clicks,
         Impressions |-> merged[i].Impressions, Author |-> merged[i].Author,
         ContentTheme |-> merged[i].ContentTheme, Entity |-> merged[i].Entity,
         SubEntity |-> merged[i].SubEntity,
         Clicks_Contribution_Percentage |->
            Contribution(merged[i].Clicks, ThemeClicksOf(tt, merged[i])),
         Impressions_Contribution_Percentage |->
            Contribution(merged[i].Impressions, ThemeImpressionsOf(tt, merged[i]))]]

----------------------------------------------------------------------------
(* Tier Classifier *)

\* totals.count > 0 ? parseFloat((totals.clicks / totals.count).toFixed(2)) : 0
AverageClicks(totals) ==
  IF totals.count > 0 THEN ToFixed2(totals.clicks, totals.count) ELSE 0

\* s => s.articleCount > ARTICLE_COUNT_THRESHOLD
InTopPool(all) ==
  [j \in 1..Len(all) |-> all[j].articleCount > ARTICLE_COUNT_THRESHOLD]
\* s => s.articleCount <= ARTICLE_COUNT_THRESHOLD
InPotentialPool(all) ==
  [j \in 1..Len(all) |-> all[j].articleCount <= ARTICLE_COUNT_THRESHOLD]

\* Variant of Performers: a pool with fewer than TOP_N groups is filled up with
\* the best groups outside it
PerformersBackfilled(all, pool) ==
  Slice(SortDesc(Filter(all, pool), "averageClicks")
          \o SortDesc(Filter(all, [j \in 1..Len(all) |-> ~pool[j]]), "averageClicks"),
        TOP_N)

\* all.filter(pool).sort((a, b) => b.averageClicks - a.averageClicks)
\*    .slice(0, TOP_N)
Performers(all, pool) == Slice(SortDesc(Filter(all, pool), "averageClicks"), TOP_N)

\* let tier = 'standard'; if (top.has(key)) tier = 'top';
\* else if (potential.has(key)) tier = 'potential'
TierOf(key, top, potential) ==
  IF key \in top THEN "top"
  ELSE IF key \in potential THEN "potential"
  ELSE "standard"

\* Theme summaries
allThemeSummaries(merged) ==
  LET tt == themeTotals(merged)
  IN [j \in 1..Len(tt) |->
        [ContentTheme |-> tt[j].key, articleCount |-> tt[j].count,
         totalClicks |-> tt[j].clicks, totalImpressions |-> tt[j].impressions,
         averageClicks |-> AverageClicks(tt[j])]]

\* Variant of categorySummariesOf: the table is returned in the order of the
\* metric of the tiers, averageClicks
categorySummariesOfByAverage(merged) ==
  LET all == allThemeSummaries(merged)
      top == {s.ContentTheme : s \in Range(Performers(all, InTopPool(all)))}
      potential ==
        {s.ContentTheme : s \in Range(Performers(all, InPotentialPool(all)))}
      tiered == [j \in 1..Len(all) |->
                   [ContentTheme |-> all[j].ContentTheme,
                    articleCount |-> all[j].articleCount,
                    totalClicks |-> all[j].totalClicks,
                    totalImpressions |-> all[j].totalImpressions,
                    averageClicks |-> all[j].averageClicks,
                    performanceTier |-> TierOf(all[j].ContentTheme, top, potential)]]
  IN SortDesc(tiered, "averageClicks")

categorySummariesOf(merged) ==
  LET all == allThemeSummaries(merged)
      top == {s.ContentTheme : s \in Range(Performers(all, InTopPool(all)))}
      potential ==
        {s.ContentTheme : s \in Range(Performers(all, InPotentialPool(all)))}
      tiered == [j \in 1..Len(all) |->
                   [ContentTheme |-> all[j].ContentTheme,
                    articleCount |-> all[j].articleCount,
                    totalClicks |-> all[j].totalClicks,
                    totalImpressions |-> all[j].totalImpressions,
                    averageClicks |-> all[j].averageClicks,
                    performanceTier |-> TierOf(all[j].ContentTheme, top, potential)]]
  IN SortDesc(tiered, "totalClicks")

\* Detailed entity (subcategory) summaries
allEntitySummaries(merged) ==
  LET et == entityTotals(merged)
  IN [j \in 1..Len(et) |->
        [Entity |-> EntityOf(et[j].key), ParentTheme |-> ParentThemeOf(et[j].key),
         articleCount |-> et[j].count,
         totalClicks |-> et[j].clicks, totalImpressions |-> et[j].impressions,
         averageClicks |-> AverageClicks(et[j])]]

\* `${s.ParentTheme}::${s.Entity}`
SummaryCompoundKey(s) == EntityKey(s.ParentTheme, s.Entity)

subcategorySummariesOf(merged) ==
  LET all == allEntitySummaries(merged)
      top == {SummaryCompoundKey(s) : s \in Range(Performers(all, InTopPool(all)))}
      potential ==
        {SummaryCompoundKey(s) : s \in Range(Performers(all, InPotentialPool(all)))}
      tiered == [j \in 1..Len(all) |->
                   [Entity |-> all[j].Entity, ParentTheme |-> all[j].ParentTheme,
                    articleCount |-> all[j].articleCount,
                    totalClicks |-> all[j].totalClicks,
                    totalImpressions |-> all[j].totalImpressions,
                    averageClicks |-> all[j].averageClicks,
                    performanceTier |->
                       TierOf(SummaryCompoundKey(all[j]), top, potential)]]
  IN SortDesc(tiered, "totalClicks")

\* Aggregated (global) entity summaries
allGlobalEntitySummaries(merged) ==
  LET gt == globalEntityTotals(merged)
  IN [j \in 1..Len(gt) |->
        [Entity |-> gt[j].key, articleCount |-> gt[j].count,
         totalClicks |-> gt[j].clicks, averageClicks |-> AverageClicks(gt[j])]]

entitySummariesOf(merged) ==
  LET all == allGlobalEntitySummaries(merged)
      top == {s.Entity : s \in Range(Performers(all, InTopPool(all)))}
      potential == {s.Entity : s \in Range(Performers(all, InPotentialPool(all)))}
      tiered == [j \in 1..Len(all) |->
                   [Entity |-> all[j].Entity,
                    articleCount |-> all[j].articleCount,
                    totalClicks |-> all[j].totalClicks,
                    averageClicks |-> all[j].averageClicks,
                    performanceTier |-> TierOf(all[j].Entity, top, potential)]]
  IN SortDesc(tiered, "totalClicks")

\* Author summaries: hasAuthorData ? entries(authorTotals).map(...).sort(...) : []
authorSummariesOf(merged) ==
  LET at == authorTotals(merged)
      hasAuthorData == \E i \in 1..Len(merged) : HasAuthor(merged)[i]
      all == [j \in 1..Len(at) |->
                [authorName |-> at[j].key, articleCount |-> at[j].count,
                 totalClicks |-> at[j].clicks, totalImpressions |-> at[j].impressions,
                 averageClicks |-> AverageClicks(at[j])]]
  IN IF hasAuthorData THEN SortDesc(all, "totalClicks") ELSE <<>>

----------------------------------------------------------------------------
(* Discover Subset Analyzer *)

\* Variant of discoverTop100UrlsOf: the first rows of the upload, unsorted
discoverTop100UrlsUnsorted(urls) == Slice(urls, DISCOVER_SLICE)

\* [...categorizedUrls].sort((a, b) => b.Clicks - a.Clicks).slice(0, 100)
discoverTop100UrlsOf(urls) == Slice(SortDesc(urls, "Clicks"), DISCOVER_SLICE)

\* Variant of discoverThemeTotals: the totals of the themes over all rows of
\* the upload
discoverThemeTotalsOfAllRows(top100) ==
  themeTotals(MergedData(categorizedResults, originalCsvData))

\* discoverTop100Urls.forEach(row => ...)
discoverThemeTotals(top100) == TotalsBy(top100, ThemeKeys(top100), Always(top100))
discoverEntityTotals(top100) ==
  TotalsBy(top100, CompoundKeys(top100), Always(top100))

\* performers.find(p => ...): the first performer whose test hit[j] is true, or
\* NoEntry
FindPerformer(performers, hit) ==
  LET hits == {j \in 1..Len(performers) : hit[j]}
  IN IF hits = {} THEN NoEntry
     ELSE LET j == CHOOSE j \in hits : \A k \in hits : j <= k
          IN [found |-> TRUE, articleCount |-> performers[j].articleCount]

\* p => p.ContentTheme === summary.ContentTheme
SameTheme(performers, summary) ==
  [j \in 1..Len(performers) |-> performers[j].ContentTheme = summary.ContentTheme]
\* p => p.Entity === summary.Entity && p.ParentTheme === summary.ParentTheme
SameEntityAndTheme(performers, summary) ==
  [j \in 1..Len(performers) |->
     performers[j].Entity = summary.Entity
     /\ performers[j].ParentTheme = summary.ParentTheme]

\* let tier = 'standard'; if (topPerformerInfo) tier =
\*   topPerformerInfo.articleCount > DISCOVER_ARTICLE_COUNT_THRESHOLD ? 'top' : 'potential'
DiscoverTierOf(info) ==
  IF info.found
  THEN (IF info.articleCount > DISCOVER_ARTICLE_COUNT_THRESHOLD THEN "top"
        ELSE "potential")
  ELSE "standard"

\* allDiscoverThemeSummaries is sorted in place by the sort that selects the top
\* performers, so the map that follows runs over the sorted array
discoverCategorySummariesOf(top100) ==
  LET dt == discoverThemeTotals(top100)
      all == [j \in 1..Len(dt) |->
                [ContentTheme |-> dt[j].key, articleCount |-> dt[j].count,
                 totalClicks |-> dt[j].clicks]]
      sorted == SortDesc(all, "totalClicks")
      performers == Slice(sorted, DISCOVER_TOP_N)
      tiered == [j \in 1..Len(sorted) |->
                   [ContentTheme |-> sorted[j].ContentTheme,
                    articleCount |-> sorted[j].articleCount,
                    totalClicks |-> sorted[j].totalClicks,
                    performanceTier |->
                       DiscoverTierOf(FindPerformer(performers,
                                         SameTheme(performers, sorted[j])))]]
  IN SortDesc(tiered, "totalClicks")

discoverSubcategorySummariesOf(top100) ==
  LET de == discoverEntityTotals(top100)
      all == [j \in 1..Len(de) |->
                [Entity |-> EntityOf(de[j].key), ParentTheme |-> ParentThemeOf(de[j].key),
                 articleCount |-> de[j].count, totalClicks |-> de[j].clicks]]
      sorted == SortDesc(all, "totalClicks")
      performers == Slice(sorted, DISCOVER_TOP_N)
      tiered == [j \in 1..Len(sorted) |->
                   [Entity |-> sorted[j].Entity, ParentTheme |-> sorted[j].ParentTheme,
                    articleCount |-> sorted[j].articleCount,
                    totalClicks |-> sorted[j].totalClicks,
                    performanceTier |->
                       DiscoverTierOf(FindPerformer(performers,
                                         SameEntityAndTheme(performers, sorted[j])))]]
  IN SortDesc(tiered, "totalClicks")

----------------------------------------------------------------------------
(* processCategorizedData *)

processCategorizedData(items, rows) ==
  LET merged == MergedData(items, rows)
      urls == categorizedUrlsOf(merged)
      top100 == discoverTop100UrlsOf(urls)
  IN [categorizedUrls |-> urls,
      categorySummaries |-> categorySummariesOf(merged),
      subcategorySummaries |-> subcategorySummariesOf(merged),
      entitySummaries |-> entitySummariesOf(merged),
      authorSummaries |-> authorSummariesOf(merged),
      discoverCategorySummaries |-> discoverCategorySummariesOf(top100),
      discoverSubcategorySummaries |-> discoverSubcategorySummariesOf(top100),
      discoverTop100Urls |-> top100]

----------------------------------------------------------------------------
(* parseCsv.  The worksheet that XLSX.utils.sheet_to_json reads is a list of
   column headers and a list of records, each with one cell per column; a
   cell is a number, a string or undefined (an empty cell, for which the
   record has no property).  A string is a sequence of atoms, " " being one
   blank and every other atom a piece of text without blanks. *)

Undefined == [t |-> "undefined", n |-> 0, s |-> <<>>]
Num(n) == [t |-> "number", n |-> n, s |-> <<>>]
Str(s) == [t |-> "string", n |-> 0, s |-> s]

\* String.prototype.trim
Trim(s) ==
  LET inked == {i \in 1..Len(s) : s[i] # " "}
  IN IF inked = {} THEN <<>>
     ELSE SubSeq(s, CHOOSE i \in inked : \A j \in inked : i <= j,
                    CHOOSE i \in inked : \A j \in inked : i >= j)

\* String.prototype.toLowerCase, on the pieces of text the headers are made of
LowerOf(atom) ==
  CASE atom \in {"URL", "Url"} -> "url"
    [] atom \in {"Clicks", "CLICKS"} -> "clicks"
    [] atom \in {"Impressions", "IMPRESSIONS"} -> "impressions"
    [] atom \in {"Title", "TITLE"} -> "title"
    [] atom \in {"Author", "AUTHOR"} -> "author"
    [] atom \in {"Name", "NAME"} -> "name"
    [] OTHER -> atom

\* h.trim().toLowerCase()
NormalizedHeader(h) == LET t == Trim(h) IN [i \in 1..Len(t) |-> LowerOf(t[i])]

\* headers.find(h => h.trim().toLowerCase() === name), headers being the keys
\* of the first record: the index of the first such column, or 0
FindHeader(sheet, name) ==
  LET hits == {i \in 1..Len(sheet.columns) :
                 /\ sheet.records[1][i].t # "undefined"
                 /\ NormalizedHeader(sheet.columns[i]) = name}
  IN IF hits = {} THEN 0 ELSE CHOOSE i \in hits : \A j \in hits : i <= j

\* row[header]
CellOf(record, header) == IF header = 0 THEN Undefined ELSE record[header]

\* The cells that are not falsy: a number other than 0, a string other than ''
Truthy(cell) ==
  \/ cell.t = "number" /\ cell.n # 0
  \/ cell.t = "string" /\ cell.s # <<>>

\* String(cell || '').trim()
TrimmedString(cell) ==
  IF ~Truthy(cell) THEN <<>>
  ELSE IF cell.t = "string" THEN Trim(cell.s)
  ELSE <<ToString(cell.n)>>

NotANumber == [nan |-> TRUE, v |-> 0]
Finite(v) == [nan |-> FALSE, v |-> v]

\* Number(text) for one piece of text: a decimal numeral, or not a number
NumberOfText(atom) ==
  CASE atom = "12" -> Finite(12)
    [] atom = "0" -> Finite(0)
    [] atom = "-7" -> Finite(0 - 7)
    [] OTHER -> NotANumber

\* Number(cell || 0): a string is trimmed and read as a numeral, '' being 0
NumberOf(cell) ==
  IF ~Truthy(cell) THEN Finite(0)
  ELSE IF cell.t = "number" THEN Finite(cell.n)
  ELSE LET t == Trim(cell.s)
       IN IF t = <<>> THEN Finite(0)
          ELSE IF Len(t) = 1 THEN NumberOfText(t[1])
          ELSE NotANumber

Returned(rows) == [threw |-> FALSE, message |-> "", rows |-> rows]
Thrown(message) == [threw |-> TRUE, message |-> message, rows |-> <<>>]

\* row => row.URL && !isNaN(row.Clicks) && !isNaN(row.Impressions)
KeepRow(row) == row.URL # <<>> /\ ~row.Clicks.nan /\ ~row.Impressions.nan

\* XLSX.read throws on a text it cannot read; the catch of line 54 rethrows an
\* error whose message names the columns and replaces every other error
parseCsv(sheet) ==
  IF sheet.corrupt
  THEN Thrown("Failed to parse CSV file. Ensure it is a valid CSV with 'URL', 'Clicks', and 'Impressions' columns.")
  ELSE IF Len(sheet.records) = 0 THEN Returned(<<>>)
  ELSE
    LET urlHeader == FindHeader(sheet, <<"url">>)
        clicksHeader == FindHeader(sheet, <<"clicks">>)
        impressionsHeader == FindHeader(sheet, <<"impressions">>)
        titleHeader == FindHeader(sheet, <<"title">>)
        authorHeader == FindHeader(sheet, <<"author", " ", "name">>)
        Mapped(record) ==
          [URL |-> TrimmedString(CellOf(record, urlHeader)),
           Clicks |-> NumberOf(CellOf(record, clicksHeader)),
           Impressions |-> NumberOf(CellOf(record, impressionsHeader)),
           Title |-> TrimmedString(CellOf(record, titleHeader)),
           Author |-> TrimmedString(CellOf(record, authorHeader))]
        Typed(row) ==
          [URL |-> row.URL, Clicks |-> row.Clicks.v,
           Impressions |-> row.Impressions.v, Title |-> row.Title,
           Author |-> IF row.Author = <<>> THEN "" ELSE row.Author]
    IN IF urlHeader = 0 \/ clicksHeader = 0 \/ impressionsHeader = 0
       THEN Thrown("CSV must contain 'URL', 'Clicks', and 'Impressions' columns.")
       ELSE Returned(Filter(
              [i \in 1..Len(sheet.records) |-> Typed(Mapped(sheet.records[i]))],
              [i \in 1..Len(sheet.records) |-> KeepRow(Mapped(sheet.records[i]))]))

----------------------------------------------------------------------------
(* The application: the React state of App and the upload in flight.  app is
   the state the hooks of App hold; job is the run of handleFileAnalysis in
   flight: the file, the key captured by the callback, the locals of
   categorizeUrlsFromCsv (data, i, allCategorizedItems) and the requests sent
   to the classifier so far, each with its outcome. *)

NoKey == <<>>
NoError == ""

\* The keys under which App keeps state in window.localStorage
StorageKeys == {"gemini-api-key", "analysisHistory"}

\* A storage item: absent, or the value last written under the key
NoItem == [present |-> FALSE, value |-> <<>>]

\* window.localStorage with no item of the application
EmptyStorage == [k \in StorageKeys |-> NoItem]

\* useLocalStorage(key, initialValue) at mount: the state starts from the item
\* stored under the key, and from initialValue when there is none
useLocalStorage(storage, key, initialValue) ==
  IF storage[key].present THEN storage[key].value ELSE initialValue

\* The setter useLocalStorage returns: besides the state it writes the value
\* under the key
setStoredValue(storage, key, value) ==
  [storage EXCEPT ![key] = [present |-> TRUE, value |-> value]]

InitialApp ==
  [apiKey |-> NoKey, step |-> "upload", completedSteps |-> {"upload"},
   isLoading |-> FALSE, error |-> NoError, progressMessage |-> "",
   currentFile |-> "", websiteDomain |-> <<>>, originalData |-> <<>>,
   categorizedData |-> <<>>, analysisData |-> <<>>,
   subcategoryAnalysisData |-> <<>>, insights |-> "", chartData |-> <<>>,
   chatHistory |-> <<>>, isChatLoading |-> FALSE, history |-> <<>>]

\* The state of App when it mounts: the key and the history come from
\* useLocalStorage, everything else from useState
MountedApp(storage) ==
  [InitialApp EXCEPT !.apiKey = useLocalStorage(storage, "gemini-api-key", NoKey),
                     !.history = useLocalStorage(storage, "analysisHistory", <<>>)]

NoJob ==
  [stage |-> "idle", file |-> "", apiKey |-> NoKey, data |-> <<>>, i |-> 0,
   allCategorizedItems |-> <<>>, requests |-> <<>>, progress |-> <<>>,
   message |-> "", uploads |-> 0, callsBefore |-> 0]

\* handleReset(soft)
handleReset(a, soft) ==
  [a EXCEPT !.step = "upload", !.completedSteps = {"upload"},
            !.categorizedData = <<>>, !.analysisData = <<>>,
            !.subcategoryAnalysisData = <<>>, !.insights = "", !.chartData = <<>>,
            !.error = NoError, !.originalData = <<>>, !.currentFile = "",
            !.websiteDomain = <<>>, !.chatHistory = <<>>,
            !.apiKey = IF soft THEN @ ELSE NoKey]

\* getDomainFromUrl for a URL without scheme and path: the host name less a
\* leading 'www.'
getDomainFromUrl(url) ==
  IF Len(url) > 1 /\ url[1] = "www." THEN Tail(url) ELSE url

\* Math.ceil(data.length / BATCH_SIZE)
TotalBatches(data) == (Len(data) + BATCH_SIZE - 1) \div BATCH_SIZE
\* (i / BATCH_SIZE) + 1
CurrentBatchNumber(i) == i \div BATCH_SIZE + 1
\* Variant of BatchData: the end of the slice is BATCH_SIZE for every batch
BatchDataFixedEnd(data, i) == SubSeq(data, i + 1, MinOf(BATCH_SIZE, Len(data)))

\* data.slice(i, i + BATCH_SIZE)
BatchData(data, i) == SubSeq(data, i + 1, MinOf(i + BATCH_SIZE, Len(data)))

ProgressOfBatch(data, i) ==
  "Categorizing URLs: Batch " \o ToString(CurrentBatchNumber(i)) \o " of "
    \o ToString(TotalBatches(data)) \o "..."

\* onProgress({ current: currentBatchNumber, total: totalBatches })
ProgressCall(data, i) ==
  [current |-> CurrentBatchNumber(i), total |-> TotalBatches(data)]

\* The request of one pass of the loop: the batch number, the URLs of the
\* items of the prompt and whether they carry titles
RequestOfBatch(data, i) ==
  [current |-> CurrentBatchNumber(i), size |-> Len(BatchData(data, i)),
   urls |-> [k \in 1..Len(BatchData(data, i)) |-> BatchData(data, i)[k].URL],
   hasTitles |-> data[1].Title # <<>>, outcome |-> "pending"]

\* The last request of the list gets its outcome
Settle(requests, outcome) ==
  [requests EXCEPT ![Len(requests)] = [@ EXCEPT !.outcome = outcome]]

\* The item the classifier returns for the k-th URL of a prompt
ClassifiedAs(url, k) ==
  [url |-> url, contentTheme |-> <<"t" \o ToString(k % 3)>>,
   entity |-> <<"e" \o ToString(k % 2)>>, subEntity |-> <<"s">>]

\* An answer of the classifier to a batch: one item per URL of the batch
ClassifierAnswer(batch) ==
  [k \in 1..Len(batch) |-> ClassifiedAs(batch[k].URL, k)]

\* categorizeUrlsFromCsv up to its first await: it throws without a key,
\* returns [] for no rows, and else reports the progress of the first batch
\* and requests it
categorizeUrlsFromCsv(j, data, apiKey) ==
  IF apiKey = NoKey
  THEN [j EXCEPT !.stage = "rejected", !.data = data, !.apiKey = apiKey,
                 !.message = "API key is required."]
  ELSE IF Len(data) = 0
  THEN [j EXCEPT !.stage = "resolved", !.data = data, !.apiKey = apiKey]
  ELSE [j EXCEPT !.stage = "awaiting", !.data = data, !.apiKey = apiKey,
                 !.progress = <<ProgressCall(data, 0)>>,
                 !.requests = <<RequestOfBatch(data, 0)>>]

\* The answer to the request in flight has arrived and parses: the items are
\* pushed, and the loop reports and requests the next batch or ends, and
\* categorizeUrlsFromCsv returns allCategorizedItems
OnResponse(j, result) ==
  IF j.i + BATCH_SIZE < Len(j.data)
  THEN [j EXCEPT !.i = j.i + BATCH_SIZE,
                 !.allCategorizedItems = j.allCategorizedItems \o result,
                 !.progress = Append(j.progress,
                                     ProgressCall(j.data, j.i + BATCH_SIZE)),
                 !.requests = Append(Settle(j.requests, "ok"),
                                     RequestOfBatch(j.data, j.i + BATCH_SIZE))]
  ELSE [j EXCEPT !.stage = "resolved",
                 !.allCategorizedItems = j.allCategorizedItems \o result,
                 !.requests = Settle(j.requests, "ok")]

\* The request in flight fails, or its answer does not parse: the catch of the
\* loop throws and categorizeUrlsFromCsv rejects
OnFailure(j) ==
  [j EXCEPT !.stage = "rejected",
            !.requests = Settle(j.requests, "failed"),
            !.message = "Failed to categorize URLs on batch "
                          \o ToString(CurrentBatchNumber(j.i))
                          \o ". The AI model could not process the request. Please check your API key and try again."]

\* categorizeUrlsFromCsv has returned items: handleFileAnalysis processes and
\* publishes the result
OnResolved(a, j, c, o) ==
  [app |-> [a EXCEPT !.categorizedData = o.categorizedUrls,
                     !.analysisData = o.categorySummaries,
                     !.subcategoryAnalysisData = o.subcategorySummaries,
                     !.step = "results",
                     !.completedSteps = @ \cup {"results"},
                     !.isLoading = FALSE, !.progressMessage = ""],
   job |-> j,
   calls |-> Append(c, [items |-> j.allCategorizedItems, rows |-> j.data,
                        out |-> o])]

\* The answer to the request in flight has arrived: categorizeUrlsFromCsv goes
\* on, and onProgress shows the next batch, or it returns and
\* handleFileAnalysis goes on behind its await
OnBatchResult(a, j, c, result) ==
  IF j.i + BATCH_SIZE < Len(j.data)
  THEN [app |-> [a EXCEPT !.progressMessage =
                             ProgressOfBatch(j.data, j.i + BATCH_SIZE)],
        job |-> OnResponse(j, result),
        calls |-> c]
  ELSE OnResolved(a, OnResponse(j, result), c,
                  processCategorizedData(j.allCategorizedItems \o result, j.data))

\* Variant of OnBatchError: the error of a batch is logged and the loop goes
\* on with the items it has
OnBatchErrorContinue(a, j, c) ==
  [OnBatchResult(a, j, c, <<>>) EXCEPT !.job.requests =
     [n \in 1..Len(@) |->
        IF @[n].current = CurrentBatchNumber(j.i)
        THEN [@[n] EXCEPT !.outcome = "failed"] ELSE @[n]]]

\* The request in flight fails, or its answer does not parse: the catch of the
\* loop throws, categorizeUrlsFromCsv rejects, and the catch and the finally
\* of handleFileAnalysis run
OnBatchError(a, j, c) ==
  [app |-> [a EXCEPT !.error = "Failed to process data. " \o OnFailure(j).message,
                     !.isLoading = FALSE, !.progressMessage = ""],
   job |-> OnFailure(j),
   calls |-> c]

----------------------------------------------------------------------------
(* Insights, chat and history.  An AiInsights object is a token, "" is null;
   a chat request in flight keeps what the closure of handleSendMessage
   captured: chatHistory and updatedHistory *)

\* fetchInsights up to its first await: it throws when its fourth parameter
\* is falsy (NoKey stands for null, undefined and '')
fetchInsights(analysisData, subcategoryAnalysisData, discoverTop100Data, apiKey) ==
  IF apiKey = NoKey
  THEN [threw |-> TRUE, message |-> "API key is required."]
  ELSE [threw |-> FALSE, message |-> ""]

\* handleGetInsights up to the point where control returns to the browser.
\* Line 128 passes three arguments, so apiKey arrives as discoverTop100Data,
\* the fourth parameter is undefined and the await throws in the same task:
\* catch and finally run before any other handler can
handleGetInsights(a) ==
  IF a.apiKey = NoKey
  THEN [a EXCEPT !.error = "API Key is not set. Please refresh and enter your key."]
  ELSE IF Len(a.analysisData) = 0
  THEN [a EXCEPT !.error = "No analysis data available to generate insights."]
  ELSE IF fetchInsights(a.analysisData, a.subcategoryAnalysisData, a.apiKey,
                        NoKey).threw
  THEN [a EXCEPT !.error = "Failed to generate insights. "
                             \o fetchInsights(a.analysisData,
                                              a.subcategoryAnalysisData,
                                              a.apiKey, NoKey).message,
                 !.isLoading = FALSE, !.progressMessage = ""]
  ELSE [a EXCEPT !.isLoading = TRUE, !.error = NoError,
                 !.progressMessage = "Generating strategic insights..."]

UserMessage(message) == [role |-> "user", content |-> message]
ModelMessage(response) == [role |-> "model", content |-> response]

\* What handleSendMessage captures for its request
ChatRequest(a, message) ==
  [chatHistory |-> a.chatHistory,
   updatedHistory |-> Append(a.chatHistory, UserMessage(message)),
   question |-> message]

\* handleSendMessage up to its await
handleSendMessage(a, message) ==
  IF a.apiKey = NoKey \/ a.insights = ""
  THEN a
  ELSE [a EXCEPT !.chatHistory = ChatRequest(a, message).updatedHistory,
                 !.isChatLoading = TRUE, !.error = NoError]

\* handleSendMessage behind its await, when fetchChatResponse resolved
OnChatResponse(a, request, response) ==
  [a EXCEPT !.chatHistory = Append(request.updatedHistory, ModelMessage(response)),
            !.isChatLoading = FALSE]

\* Variant of OnChatError: the history is not reverted
OnChatErrorKeep(a, request) ==
  [a EXCEPT !.error = "AI chat failed. Failed to get a response from the AI. Please check your API key and try again.",
            !.isChatLoading = FALSE]

\* handleSendMessage behind its await, when fetchChatResponse rejected
OnChatError(a, request) ==
  [a EXCEPT !.error = "AI chat failed. Failed to get a response from the AI. Please check your API key and try again.",
            !.chatHistory = request.chatHistory,
            !.isChatLoading = FALSE]

\* A sequence without its i-th element
RemoveAt(s, i) == SubSeq(s, 1, i - 1) \o SubSeq(s, i + 1, Len(s))

\* Date.now() at a save: later than the time of every entry kept
Now(history) ==
  1 + (CHOOSE m \in {0} \cup {history[i].id : i \in 1..Len(history)} :
         \A i \in 1..Len(history) : history[i].id <= m)

\* The entry handleSaveToHistory builds
NewEntry(a) ==
  [id |-> Now(a.history), date |-> Now(a.history), fileName |-> a.currentFile,
   websiteDomain |-> a.websiteDomain, categorizedData |-> a.categorizedData,
   analysisData |-> a.analysisData,
   subcategoryAnalysisData |-> a.subcategoryAnalysisData,
   insights |-> a.insights, chartData |-> a.chartData]

\* handleSaveToHistory: the history it sets, the entry first
handleSaveToHistory(a) ==
  IF a.insights = "" \/ a.currentFile = ""
  THEN a.history
  ELSE <<NewEntry(a)>> \o a.history

\* isSaved: history.some(h => h.insights === insights)
IsSaved(a) == \E i \in 1..Len(a.history) : a.history[i].insights = a.insights

\* handleLoadFromHistory(entry)
handleLoadFromHistory(a, entry) ==
  [a EXCEPT !.categorizedData = entry.categorizedData,
            !.analysisData = entry.analysisData,
            !.subcategoryAnalysisData = entry.subcategoryAnalysisData,
            !.insights = entry.insights, !.chartData = entry.chartData,
            !.currentFile = entry.fileName,
            !.websiteDomain = entry.websiteDomain,
            !.completedSteps = {"upload", "results", "insights", "email"},
            !.step = "insights", !.error = NoError, !.chatHistory = <<>>]

\* handleDeleteFromHistory(id): the history it sets
handleDeleteFromHistory(a, id) ==
  Filter(a.history, [i \in 1..Len(a.history) |-> a.history[i].id # id])

\* Variant of handleStepClick: every step can be opened
handleStepClickAny(a, clickedStep) == [a EXCEPT !.step = clickedStep]

\* handleStepClick(clickedStep)
handleStepClick(a, clickedStep) ==
  IF clickedStep \in a.completedSteps \/ clickedStep = "history"
  THEN [a EXCEPT !.step = clickedStep]
  ELSE a

----------------------------------------------------------------------------
(* Inputs of the small uploads: every row list and every classification list
   up to the bounds, over two URLs.  A metric is a <<Clicks, Impressions>>
   pair; the pairs give groups whose clicks total 0, groups whose impressions
   total 0, and quotients that do not end after two decimals.  A label is a
   <<theme, entity>> pair; the pairs give two entities under one theme and
   one entity under two themes. *)

BoundedSeq(S, n) == UNION {[1..k -> S] : k \in 0..n}

URLSet == {"u1", "u2"}
MetricSet == {<<0, 3>>, <<1, 0>>, <<2, 6>>}
LabelSet == {<< <<"a">>, <<"x">> >>, << <<"a">>, <<"y">> >>, << <<"b">>, <<"x">> >>}

RowSet ==
  {[URL |-> u, Clicks |-> m[1], Impressions |-> m[2], Author |-> ""] :
     u \in URLSet, m \in MetricSet}
ItemSet ==
  {[url |-> u, contentTheme |-> l[1], entity |-> l[2], subEntity |-> <<"s">>] :
     u \in URLSet, l \in LabelSet}

----------------------------------------------------------------------------
(* Inputs of the uploads with an author column: rows with and without an
   author name, and at most one classification *)

AuthorSet == {"", "ann", "bob"}
AuthorMetricSet == {<<1, 0>>, <<2, 6>>}
AuthorRowSet ==
  {[URL |-> u, Clicks |-> m[1], Impressions |-> m[2], Author |-> a] :
     u \in URLSet, m \in AuthorMetricSet, a \in AuthorSet}
AuthorItemsSet == {<<>>} \cup {<<item>> : item \in ItemSet}

----------------------------------------------------------------------------
(* Inputs of the grouped uploads: up to MaxGroups groups of articles.  Group i
   holds size[i] articles, each with its own URL and with the clicks the
   pattern gives the group, all classified alike by the labelling.  The
   labellings give every group its own theme, or one theme and its own
   entity, or a theme that ends and an entity that begins with a colon, or
   labels that contain the delimiter '::', among them one theme with entities
   'b::e1', 'b::e2', ... *)

SizeSet == {0, 2, 3}
GroupIds == 1..MaxGroups

PatternSet == {"ascending", "descending", "flat"}
GroupClicks(pattern, i) ==
  CASE pattern = "ascending" -> i
    [] pattern = "descending" -> MaxGroups + 1 - i
    [] OTHER -> 1

LabellingSet == {"distinct", "oneTheme", "colons", "delimiter", "nested"}
GroupTheme(labelling, i) ==
  CASE labelling = "distinct" -> <<"t" \o ToString(i)>>
    [] labelling \in {"oneTheme", "nested"} -> <<"a">>
    [] labelling = "delimiter" ->
         (IF i % 2 = 1 THEN <<"a">> ELSE <<"a", ":", ":", "b">>)
    [] OTHER -> <<"a", ":">>
GroupEntity(labelling, i) ==
  CASE labelling = "colons" -> <<":", "e" \o ToString(i)>>
    [] labelling = "delimiter" ->
         (IF i % 2 = 1 THEN <<"b", ":", ":", "c">> ELSE <<"c">>)
    [] labelling = "nested" -> <<"b", ":", ":", "e" \o ToString(i)>>
    [] OTHER -> <<"e" \o ToString(i)>>

\* The articles of groups i..MaxGroups, as <<group, copy>> pairs in upload order
RECURSIVE GroupedArticles(_, _)
GroupedArticles(size, i) ==
  IF i > MaxGroups THEN <<>>
  ELSE [k \in 1..size[i] |-> <<i, k>>] \o GroupedArticles(size, i + 1)

GroupedRows(size, pattern) ==
  LET arts == GroupedArticles(size, 1)
  IN [n \in 1..Len(arts) |->
        [URL |-> arts[n], Clicks |-> GroupClicks(pattern, arts[n][1]),
         Impressions |-> 10, Author |-> ""]]

GroupedItems(size, labelling) ==
  LET arts == GroupedArticles(size, 1)
  IN [n \in 1..Len(arts) |->
        [url |-> arts[n], contentTheme |-> GroupTheme(labelling, arts[n][1]),
         entity |-> GroupEntity(labelling, arts[n][1]), subEntity |-> <<"s">>]]

----------------------------------------------------------------------------
(* Inputs of the mixed uploads: up to MaxArticles rows with their own URLs,
   each with 5, 10 or 30 clicks and classified under theme X or theme Y, so
   that a theme holds rows of different clicks; the upload has no author
   column, or one that names ann, bob and nobody in turn. *)

MixedClicks == {5, 10, 30}
MixedThemes == {<<"X">>, <<"Y">>}
MixedAuthorings == {"none", "inTurn"}

MixedAuthor(authoring, i) ==
  IF authoring = "none" THEN ""
  ELSE IF i % 3 = 1 THEN "ann"
  ELSE IF i % 3 = 2 THEN "bob"
  ELSE ""

MixedRows(clicks, authoring) ==
  [i \in 1..Len(clicks) |->
     [URL |-> "u" \o ToString(i), Clicks |-> clicks[i], Impressions |-> 10,
      Author |-> MixedAuthor(authoring, i)]]

MixedItems(themes) ==
  [i \in 1..Len(themes) |->
     [url |-> "u" \o ToString(i), contentTheme |-> themes[i], entity |-> <<"e">>,
      subEntity |-> <<"s">>]]

----------------------------------------------------------------------------
(* Inputs of the large uploads: a few rows less or more than the Discover
   subset holds.  Row i has its own URL and the clicks the pattern gives it;
   the labelling gives a theme to the rows at the head or at the tail of the
   upload only, or spreads three themes and two entities over the rows. *)

LargeSizes == (DISCOVER_SLICE - 2)..(DISCOVER_SLICE + MaxExtra)

LargePatternSet == {"ascending", "descending", "flat", "cyclic"}
LargeClicks(pattern, i, n) ==
  CASE pattern = "ascending" -> i
    [] pattern = "descending" -> n + 1 - i
    [] pattern = "cyclic" -> (7 * i) % 13
    [] OTHER -> 4

LargeLabellingSet == {"spread", "tail", "head"}
LargeTheme(labelling, i) ==
  CASE labelling = "tail" -> (IF i > DISCOVER_SLICE THEN <<"z">> ELSE <<"a">>)
    [] labelling = "head" -> (IF i <= 2 THEN <<"z">> ELSE <<"a">>)
    [] OTHER -> <<"t" \o ToString(i % 3)>>
LargeEntity(i) == <<"e" \o ToString(i % 2)>>

LargeRows(n, pattern) ==
  [i \in 1..n |-> [URL |-> <<"r", i>>, Clicks |-> LargeClicks(pattern, i, n),
                   Impressions |-> 10, Author |-> ""]]

LargeItems(n, labelling) ==
  [i \in 1..n |-> [url |-> <<"r", i>>, contentTheme |-> LargeTheme(labelling, i),
                   entity |-> LargeEntity(i), subEntity |-> <<"s">>]]

----------------------------------------------------------------------------
(* Inputs of the repeated invocations: a few row lists, two of them
   permutations of one another, and a few classification lists *)

RepeatRowsSet ==
  {<<>>,
   <<[URL |-> "u1", Clicks |-> 2, Impressions |-> 6, Author |-> ""]>>,
   <<[URL |-> "u1", Clicks |-> 2, Impressions |-> 6, Author |-> ""],
     [URL |-> "u2", Clicks |-> 1, Impressions |-> 0, Author |-> ""]>>,
   <<[URL |-> "u2", Clicks |-> 1, Impressions |-> 0, Author |-> ""],
     [URL |-> "u1", Clicks |-> 2, Impressions |-> 6, Author |-> ""]>>}

RepeatItemsSet ==
  {<<>>,
   <<[url |-> "u1", contentTheme |-> <<"a">>, entity |-> <<"x">>,
      subEntity |-> <<"s">>]>>}

----------------------------------------------------------------------------
(* Inputs of the parser: worksheets of up to MaxRows records with three
   columns, with five columns whose headers are spelled loosely, or without
   the Impressions column; cells that are empty, blank, padded, negative or
   not numeric; and a text that cannot be read. *)

ColumnsExact == << <<"URL">>, <<"Clicks">>, <<"Impressions">> >>
ColumnsLoose ==
  << <<" ", "Url", " ">>, <<"CLICKS">>, <<"Impressions", " ">>, <<"Title">>,
     <<"AUTHOR", " ", "name">> >>
ColumnsShort == << <<"URL">>, <<"Clicks">> >>

UrlCells == {Undefined, Str(<<" ">>), Str(<<" ", "u1", " ">>), Num(7)}
MetricCells ==
  {<<Num(5), Num(3)>>, <<Num(0 - 5), Num(3)>>, <<Num(5), Num(0 - 1)>>,
   <<Str(<<"abc">>), Num(3)>>, <<Str(<<" ", "12">>), Undefined>>,
   <<Undefined, Str(<<"x">>)>>}
AuthorCells == {Undefined, Str(<<"ann", " ">>)}

RecordsExact == {<<u, m[1], m[2]>> : u \in UrlCells, m \in MetricCells}
RecordsLoose ==
  {<<u, m[1], m[2], Str(<<"T">>), a>> :
     u \in UrlCells, m \in MetricCells, a \in AuthorCells}
RecordsShort == {<<u, m[1]>> : u \in UrlCells, m \in MetricCells}

SheetOf(corrupt, columns, records) ==
  [name |-> "sheet", readable |-> TRUE, empty |-> FALSE, corrupt |-> corrupt,
   columns |-> columns, records |-> records]

SheetsUpTo(n) ==
  {SheetOf(FALSE, ColumnsExact, r) : r \in BoundedSeq(RecordsExact, n)}
  \cup {SheetOf(FALSE, ColumnsLoose, r) : r \in BoundedSeq(RecordsLoose, n)}
  \cup {SheetOf(FALSE, ColumnsShort, r) : r \in BoundedSeq(RecordsShort, n)}
  \cup {SheetOf(TRUE, <<>>, <<>>)}

NoSheet ==
  [name |-> "", readable |-> TRUE, empty |-> TRUE, corrupt |-> FALSE,
   columns |-> <<>>, records |-> <<>>]

----------------------------------------------------------------------------
(* Inputs of the application: keys typed into the form, and files: one that
   cannot be read, an empty one, one that is no spreadsheet, one without
   records, one without the Impressions column, and files of one, two and
   three batches of rows, one of them with titles. *)

KeySet == {<<" ">>, <<" ", "key", " ">>}

BatchCounts == {0, 1, 2}

SheetOfSize(n) ==
  [i \in 1..n |-> <<Str(<<"r" \o ToString(i)>>), Num((7 * i) % 13), Num(10)>>]

FileSet ==
  {[name |-> "unreadable", readable |-> FALSE, empty |-> TRUE, corrupt |-> FALSE,
    columns |-> <<>>, records |-> <<>>],
   [name |-> "empty", readable |-> TRUE, empty |-> TRUE, corrupt |-> FALSE,
    columns |-> <<>>, records |-> <<>>],
   [name |-> "corrupt", readable |-> TRUE, empty |-> FALSE, corrupt |-> TRUE,
    columns |-> <<>>, records |-> <<>>],
   [name |-> "headers", readable |-> TRUE, empty |-> FALSE, corrupt |-> FALSE,
    columns |-> ColumnsExact, records |-> <<>>],
   [name |-> "short", readable |-> TRUE, empty |-> FALSE, corrupt |-> FALSE,
    columns |-> ColumnsShort, records |-> << <<Str(<<"r1">>), Num(5)>> >>],
   [name |-> "titles", readable |-> TRUE, empty |-> FALSE, corrupt |-> FALSE,
    columns |-> ColumnsLoose,
    records |-> << <<Str(<<"www.", "r1">>), Num(5), Num(3), Str(<<"T">>),
                     Str(<<"ann">>)>> >>]}
  \cup {[name |-> "rows" \o ToString(b * BATCH_SIZE + 1), readable |-> TRUE,
          empty |-> FALSE, corrupt |-> FALSE, columns |-> ColumnsExact,
          records |-> SheetOfSize(b * BATCH_SIZE + 1)] : b \in BatchCounts}
NotParsed == Returned(<<>>)

NoOutput == [categorizedUrls |-> <<>>]

----------------------------------------------------------------------------
(* The state machine: an upload is categorized, then processed *)

Init ==
  /\ originalCsvData \in BoundedSeq(RowSet, MaxRows)
  /\ categorizedResults \in BoundedSeq(ItemSet, MaxItems)
  /\ out = NoOutput
  /\ pc = "ready"
  /\ calls = <<>>
  /\ worksheet = NoSheet
  /\ parsed = NotParsed
  /\ app = InitialApp
  /\ job = NoJob
  /\ localStorage = EmptyStorage
  /\ chatRequests = <<>>

InitGrouped ==
  /\ \E size \in [GroupIds -> SizeSet], pattern \in PatternSet,
        labelling \in LabellingSet :
        /\ originalCsvData = GroupedRows(size, pattern)
        /\ categorizedResults = GroupedItems(size, labelling)
  /\ out = NoOutput
  /\ pc = "ready"
  /\ calls = <<>>
  /\ worksheet = NoSheet
  /\ parsed = NotParsed
  /\ app = InitialApp
  /\ job = NoJob
  /\ localStorage = EmptyStorage
  /\ chatRequests = <<>>

InitMixed ==
  /\ \E n \in 0..MaxArticles :
        \E clicks \in [1..n -> MixedClicks], themes \in [1..n -> MixedThemes],
           authoring \in MixedAuthorings :
           /\ originalCsvData = MixedRows(clicks, authoring)
           /\ categorizedResults = MixedItems(themes)
  /\ out = NoOutput
  /\ pc = "ready"
  /\ calls = <<>>
  /\ worksheet = NoSheet
  /\ parsed = NotParsed
  /\ app = InitialApp
  /\ job = NoJob
  /\ localStorage = EmptyStorage
  /\ chatRequests = <<>>

InitLarge ==
  /\ \E n \in LargeSizes, pattern \in LargePatternSet,
        labelling \in LargeLabellingSet :
        /\ originalCsvData = LargeRows(n, pattern)
        /\ categorizedResults = LargeItems(n, labelling)
  /\ out = NoOutput
  /\ pc = "ready"
  /\ calls = <<>>
  /\ worksheet = NoSheet
  /\ parsed = NotParsed
  /\ app = InitialApp
  /\ job = NoJob
  /\ localStorage = EmptyStorage
  /\ chatRequests = <<>>

InitAuthors ==
  /\ originalCsvData \in BoundedSeq(AuthorRowSet, MaxRows)
  /\ categorizedResults \in AuthorItemsSet
  /\ out = NoOutput
  /\ pc = "ready"
  /\ calls = <<>>
  /\ worksheet = NoSheet
  /\ parsed = NotParsed
  /\ app = InitialApp
  /\ job = NoJob
  /\ localStorage = EmptyStorage
  /\ chatRequests = <<>>

InitParse ==
  /\ worksheet \in SheetsUpTo(MaxRows)
  /\ parsed = NotParsed
  /\ app = InitialApp
  /\ job = NoJob
  /\ localStorage = EmptyStorage
  /\ chatRequests = <<>>
  /\ originalCsvData = <<>>
  /\ categorizedResults = <<>>
  /\ out = NoOutput
  /\ pc = "ready"
  /\ calls = <<>>

InitApp ==
  /\ app = InitialApp
  /\ job = NoJob
  /\ localStorage = EmptyStorage
  /\ chatRequests = <<>>
  /\ worksheet = NoSheet
  /\ parsed = NotParsed
  /\ originalCsvData = <<>>
  /\ categorizedResults = <<>>
  /\ out = NoOutput
  /\ pc = "app"
  /\ calls = <<>>

InitRepeat ==
  /\ originalCsvData \in RepeatRowsSet
  /\ categorizedResults \in RepeatItemsSet
  /\ out = NoOutput
  /\ pc = "ready"
  /\ calls = <<>>
  /\ worksheet = NoSheet
  /\ parsed = NotParsed
  /\ app = InitialApp
  /\ job = NoJob
  /\ localStorage = EmptyStorage
  /\ chatRequests = <<>>

Process ==
  /\ pc = "ready"
  /\ out' = processCategorizedData(categorizedResults, originalCsvData)
  /\ pc' = "done"
  /\ calls' = Append(calls, [items |-> categorizedResults, rows |-> originalCsvData,
                             out |-> out'])
  /\ UNCHANGED <<originalCsvData, categorizedResults, worksheet, parsed, app, job,
                 localStorage, chatRequests>>

\* The caller hands over the arguments of its next invocation
NextArguments ==
  /\ pc = "done"
  /\ Len(calls) < MaxCalls
  /\ originalCsvData' \in RepeatRowsSet
  /\ categorizedResults' \in RepeatItemsSet
  /\ pc' = "ready"
  /\ UNCHANGED <<out, calls, worksheet, parsed, app, job,
                 localStorage, chatRequests>>

ParseCsv ==
  /\ pc = "ready"
  /\ parsed' = parseCsv(worksheet)
  /\ pc' = "parsed"
  /\ UNCHANGED <<originalCsvData, categorizedResults, out, calls, worksheet, app, job,
                 localStorage, chatRequests>>

\* handleApiKeySubmit, offered while no key is set
HandleApiKeySubmit ==
  /\ app.apiKey = NoKey
  /\ \E key \in KeySet :
        IF Trim(key) # <<>>
        THEN /\ app' = [app EXCEPT !.apiKey = Trim(key)]
             /\ localStorage' = setStoredValue(localStorage, "gemini-api-key",
                                               Trim(key))
        ELSE /\ app' = [app EXCEPT !.error = "API Key cannot be empty."]
             /\ UNCHANGED localStorage
  /\ UNCHANGED <<originalCsvData, categorizedResults, out, pc, calls, worksheet,
                 parsed, job, chatRequests>>

\* The button Start Over, offered while a key is set: handleReset(false)
HandleReset ==
  /\ app.apiKey # NoKey
  /\ app' = handleReset(app, FALSE)
  /\ localStorage' = setStoredValue(localStorage, "gemini-api-key", NoKey)
  /\ UNCHANGED <<originalCsvData, categorizedResults, out, pc, calls, worksheet,
                 parsed, job, chatRequests>>

\* handleFileAnalysis up to reader.readAsText; FileUpload is rendered at the
\* step 'upload' while a key is set and nothing is loading
StartFileAnalysis(files) ==
  /\ app.apiKey # NoKey
  /\ ~app.isLoading
  /\ app.step = "upload"
  /\ job.uploads < MaxUploads
  /\ \E file \in files :
        /\ app' = [handleReset(app, TRUE) EXCEPT
                     !.currentFile = file.name, !.isLoading = TRUE,
                     !.error = NoError, !.progressMessage = "Reading file..."]
        /\ job' = [NoJob EXCEPT !.stage = "reading", !.file = file.name,
                                !.apiKey = app.apiKey, !.uploads = job.uploads + 1,
                                !.callsBefore = Len(calls)]
        /\ worksheet' = file
  /\ parsed' = NotParsed
  /\ UNCHANGED <<originalCsvData, categorizedResults, out, pc, calls,
                 localStorage, chatRequests>>

HandleFileAnalysis == StartFileAnalysis(FileSet)

\* reader.onerror
ReaderOnError ==
  /\ job.stage = "reading"
  /\ ~worksheet.readable
  /\ app' = [app EXCEPT !.error = "Failed to read the file.", !.isLoading = FALSE]
  /\ job' = [job EXCEPT !.stage = "aborted"]
  /\ UNCHANGED <<originalCsvData, categorizedResults, out, pc, calls, worksheet,
                 parsed,
                 localStorage, chatRequests>>

\* reader.onload up to the first await: the text is parsed, and the first
\* batch is requested if there are rows
ReaderOnLoad ==
  /\ job.stage = "reading"
  /\ worksheet.readable
  /\ \E p \in {parseCsv(worksheet)} :
        IF worksheet.empty
        THEN /\ app' = [app EXCEPT !.error = "File is empty or could not be read.",
                                   !.isLoading = FALSE]
             /\ job' = [job EXCEPT !.stage = "aborted"]
             /\ parsed' = parsed
        ELSE IF p.threw
        THEN /\ app' = [app EXCEPT !.error = "Failed to process data. " \o p.message,
                                   !.isLoading = FALSE,
                                   !.progressMessage = ""]
             /\ job' = [job EXCEPT !.stage = "aborted"]
             /\ parsed' = p
        ELSE IF Len(p.rows) = 0
        THEN /\ app' = [app EXCEPT !.error = "CSV has no data or is improperly formatted. Ensure it has URL, Clicks, Impressions headers.",
                                   !.isLoading = FALSE,
                                   !.progressMessage = ""]
             /\ job' = [job EXCEPT !.stage = "aborted"]
             /\ parsed' = p
        ELSE /\ app' = [app EXCEPT !.originalData = p.rows,
                                   !.websiteDomain = getDomainFromUrl(p.rows[1].URL),
                                   !.progressMessage = ProgressOfBatch(p.rows, 0)]
             /\ job' = categorizeUrlsFromCsv(job, p.rows, job.apiKey)
             /\ parsed' = p
  /\ UNCHANGED <<originalCsvData, categorizedResults, out, pc, calls, worksheet,
                 localStorage, chatRequests>>

\* The classifier answers the request in flight
BatchSucceeds ==
  /\ job.stage = "awaiting"
  /\ \E r \in {OnBatchResult(app, job, calls,
                               ClassifierAnswer(BatchData(job.data, job.i)))} :
        app' = r.app /\ job' = r.job /\ calls' = r.calls
  /\ UNCHANGED <<originalCsvData, categorizedResults, out, pc, worksheet, parsed,
                 localStorage, chatRequests>>

\* The request in flight fails
BatchFails ==
  /\ job.stage = "awaiting"
  /\ \E r \in {OnBatchError(app, job, calls)} :
        app' = r.app /\ job' = r.job /\ calls' = r.calls
  /\ UNCHANGED <<originalCsvData, categorizedResults, out, pc, worksheet, parsed,
                 localStorage, chatRequests>>

\* The row counts of the calls of categorizeUrlsFromCsv: none, one, a full
\* batch, and one row more than one and than two full batches
BatchSizes ==
  {0, 1, BATCH_SIZE, BATCH_SIZE + 1, 2 * BATCH_SIZE, 2 * BATCH_SIZE + 1}

\* n parsed rows with distinct URLs, all with or all without a title
DataOfSize(n, titled) ==
  [i \in 1..n |->
     [URL |-> <<"r" \o ToString(i)>>, Clicks |-> (7 * i) % 13, Impressions |-> 10,
      Title |-> IF titled THEN <<"T">> ELSE <<>>, Author |-> ""]]

InitBatch ==
  /\ app = InitialApp
  /\ job = NoJob
  /\ localStorage = EmptyStorage
  /\ chatRequests = <<>>
  /\ worksheet = NoSheet
  /\ parsed = NotParsed
  /\ originalCsvData = <<>>
  /\ categorizedResults = <<>>
  /\ out = NoOutput
  /\ pc = "batch"
  /\ calls = <<>>

\* A call of categorizeUrlsFromCsv, when no call is awaiting an answer
Categorize ==
  /\ pc = "batch"
  /\ job.stage # "awaiting"
  /\ job.uploads < MaxUploads
  /\ \E n \in BatchSizes, titled \in BOOLEAN, apiKey \in KeySet \cup {NoKey} :
        job' = categorizeUrlsFromCsv([NoJob EXCEPT !.uploads = job.uploads + 1],
                                     DataOfSize(n, titled), apiKey)
  /\ UNCHANGED <<originalCsvData, categorizedResults, out, pc, calls, worksheet,
                 parsed, app,
                 localStorage, chatRequests>>

\* ai.models.generateContent resolves with an answer that parses
ClassifierResponds ==
  /\ pc = "batch"
  /\ job.stage = "awaiting"
  /\ job' = OnResponse(job, ClassifierAnswer(BatchData(job.data, job.i)))
  /\ UNCHANGED <<originalCsvData, categorizedResults, out, pc, calls, worksheet,
                 parsed, app,
                 localStorage, chatRequests>>

\* ai.models.generateContent rejects
ClassifierFails ==
  /\ pc = "batch"
  /\ job.stage = "awaiting"
  /\ job' = OnFailure(job)
  /\ UNCHANGED <<originalCsvData, categorizedResults, out, pc, calls, worksheet,
                 parsed, app,
                 localStorage, chatRequests>>

NextBatch ==
  \/ Categorize
  \/ ClassifierResponds
  \/ ClassifierFails

\* The files of the uploads next to insights, chat and history
WizardFiles == {file \in FileSet : file.name \in {"unreadable", "empty", "headers", "rows1"}}

\* An entry saved by an earlier session from an upload of one row
EarlierRows == parseCsv(CHOOSE file \in FileSet : file.name = "rows1").rows

EarlierOutput == processCategorizedData(ClassifierAnswer(EarlierRows), EarlierRows)

EarlierEntry ==
  [id |-> 1, date |-> 1, fileName |-> "rows1",
   websiteDomain |-> getDomainFromUrl(EarlierRows[1].URL),
   categorizedData |-> EarlierOutput.categorizedUrls,
   analysisData |-> EarlierOutput.categorySummaries,
   subcategoryAnalysisData |-> EarlierOutput.subcategorySummaries,
   insights |-> "insights", chartData |-> <<"chart">>]

\* What window.localStorage holds when the page is opened: nothing, or the
\* history an earlier session left
StorageSet ==
  {EmptyStorage, setStoredValue(EmptyStorage, "analysisHistory", <<EarlierEntry>>)}

\* What is typed into the chat box
MessageSet == {<<" ">>, <<" ", "q">>}

AppSteps == {"upload", "results", "insights", "email", "history"}

InitWizard ==
  /\ localStorage \in StorageSet
  /\ app = MountedApp(localStorage)
  /\ chatRequests = <<>>
  /\ job = NoJob
  /\ worksheet = NoSheet
  /\ parsed = NotParsed
  /\ originalCsvData = <<>>
  /\ categorizedResults = <<>>
  /\ out = NoOutput
  /\ pc = "wizard"
  /\ calls = <<>>

\* An upload of one of the small files
HandleSmallFileAnalysis == StartFileAnalysis(WizardFiles)

\* The button of ResultsTable, rendered at the step 'results' while a key is
\* set and nothing is loading: handleGetInsights
HandleGetInsights ==
  /\ app.apiKey # NoKey
  /\ ~app.isLoading
  /\ app.step = "results"
  /\ app' = handleGetInsights(app)
  /\ UNCHANGED <<originalCsvData, categorizedResults, out, pc, calls, worksheet,
                 parsed, job, localStorage, chatRequests>>

\* The form of ChatBox, rendered at the step 'insights': handleSubmit passes
\* a message that is not blank on while isChatLoading is false, and
\* handleSendMessage requests an answer
HandleSendMessage ==
  /\ app.apiKey # NoKey
  /\ ~app.isLoading
  /\ app.step = "insights"
  /\ Len(app.chatHistory) < MaxChat
  /\ \E input \in MessageSet :
        IF Trim(input) # <<>> /\ ~app.isChatLoading
        THEN /\ app' = handleSendMessage(app, Trim(input))
             /\ chatRequests' =
                  IF app.apiKey = NoKey \/ app.insights = ""
                  THEN chatRequests
                  ELSE Append(chatRequests, ChatRequest(app, Trim(input)))
        ELSE UNCHANGED <<app, chatRequests>>
  /\ UNCHANGED <<originalCsvData, categorizedResults, out, pc, calls, worksheet,
                 parsed, job, localStorage>>

\* fetchChatResponse resolves for a request in flight
ChatReplies ==
  /\ \E i \in 1..Len(chatRequests) :
        /\ app' = OnChatResponse(app, chatRequests[i], <<"a">>)
        /\ chatRequests' = RemoveAt(chatRequests, i)
  /\ UNCHANGED <<originalCsvData, categorizedResults, out, pc, calls, worksheet,
                 parsed, job, localStorage>>

\* fetchChatResponse rejects for a request in flight
ChatFails ==
  /\ \E i \in 1..Len(chatRequests) :
        /\ app' = OnChatError(app, chatRequests[i])
        /\ chatRequests' = RemoveAt(chatRequests, i)
  /\ UNCHANGED <<originalCsvData, categorizedResults, out, pc, calls, worksheet,
                 parsed, job, localStorage>>

\* The button Save to History of InsightsDisplay, disabled when isSaved
HandleSaveToHistory ==
  /\ app.apiKey # NoKey
  /\ ~app.isLoading
  /\ app.step = "insights"
  /\ ~IsSaved(app)
  /\ Len(app.history) < MaxHistory
  /\ app' = [app EXCEPT !.history = handleSaveToHistory(app)]
  /\ localStorage' = setStoredValue(localStorage, "analysisHistory",
                                    handleSaveToHistory(app))
  /\ UNCHANGED <<originalCsvData, categorizedResults, out, pc, calls, worksheet,
                 parsed, job, chatRequests>>

\* The button Load of an entry of History, rendered at the step 'history'
HandleLoadFromHistory ==
  /\ app.apiKey # NoKey
  /\ ~app.isLoading
  /\ app.step = "history"
  /\ \E i \in 1..Len(app.history) :
        app' = handleLoadFromHistory(app, app.history[i])
  /\ UNCHANGED <<originalCsvData, categorizedResults, out, pc, calls, worksheet,
                 parsed, job, localStorage, chatRequests>>

\* The button Delete of an entry of History
HandleDeleteFromHistory ==
  /\ app.apiKey # NoKey
  /\ ~app.isLoading
  /\ app.step = "history"
  /\ \E i \in 1..Len(app.history) :
        /\ app' = [app EXCEPT !.history =
                                 handleDeleteFromHistory(app, app.history[i].id)]
        /\ localStorage' = setStoredValue(localStorage, "analysisHistory",
                               handleDeleteFromHistory(app, app.history[i].id))
  /\ UNCHANGED <<originalCsvData, categorizedResults, out, pc, calls, worksheet,
                 parsed, job, chatRequests>>

\* A step of StepIndicator or the button History, offered while a key is set
HandleStepClick ==
  /\ app.apiKey # NoKey
  /\ \E clickedStep \in AppSteps : app' = handleStepClick(app, clickedStep)
  /\ UNCHANGED <<originalCsvData, categorizedResults, out, pc, calls, worksheet,
                 parsed, job, localStorage, chatRequests>>

\* The page is loaded again: App mounts anew from window.localStorage, and
\* what was in flight is gone with the old page
Reload ==
  /\ app' = MountedApp(localStorage)
  /\ job' = [NoJob EXCEPT !.uploads = job.uploads]
  /\ chatRequests' = <<>>
  /\ worksheet' = NoSheet
  /\ parsed' = NotParsed
  /\ UNCHANGED <<originalCsvData, categorizedResults, out, pc, calls,
                 localStorage>>

NextWizard ==
  \/ HandleApiKeySubmit
  \/ HandleReset
  \/ HandleSmallFileAnalysis
  \/ ReaderOnError
  \/ ReaderOnLoad
  \/ BatchSucceeds
  \/ BatchFails
  \/ HandleGetInsights
  \/ HandleSendMessage
  \/ ChatReplies
  \/ ChatFails
  \/ HandleSaveToHistory
  \/ HandleLoadFromHistory
  \/ HandleDeleteFromHistory
  \/ HandleStepClick
  \/ Reload

Next == Process

NextApp ==
  \/ HandleApiKeySubmit
  \/ HandleReset
  \/ HandleFileAnalysis
  \/ ReaderOnError
  \/ ReaderOnLoad
  \/ BatchSucceeds
  \/ BatchFails

NextParse == ParseCsv

NextRepeat == Process \/ NextArguments

Spec == Init /\ [][Next]_vars

SpecGrouped == InitGrouped /\ [][Next]_vars

SpecMixed == InitMixed /\ [][Next]_vars

SpecLarge == InitLarge /\ [][Next]_vars

SpecAuthors == InitAuthors /\ [][Next]_vars

SpecParse == InitParse /\ [][NextParse]_vars

SpecApp == InitApp /\ [][NextApp]_vars
SpecBatch == InitBatch /\ [][NextBatch]_vars
SpecWizard == InitWizard /\ [][NextWizard]_vars

SpecRepeat == InitRepeat /\ [][NextRepeat]_vars

----------------------------------------------------------------------------
(* Vocabulary of the properties *)

Done == pc = "done"

Indices(s) == 1..Len(s)

\* The sum of field f over the elements of s whose index is in idx
SumAt(s, idx, f) ==
  LET RECURSIVE R(_, _)
      R(lo, hi) == IF lo > hi THEN 0
                   ELSE IF lo = hi THEN (IF lo \in idx THEN s[lo][f] ELSE 0)
                   ELSE R(lo, (lo + hi) \div 2) + R((lo + hi) \div 2 + 1, hi)
  IN R(1, Len(s))

Total(s, f) == SumAt(s, Indices(s), f)

ItemUrls == {categorizedResults[j].url : j \in Indices(categorizedResults)}
RowUrls == {originalCsvData[i].URL : i \in Indices(originalCsvData)}

\* p hundredths is x / total * 100 rounded to the nearest hundredth
IsPercentOf(p, x, total) ==
  /\ 2 * (p * total - 10000 * x) <= total
  /\ 2 * (10000 * x - p * total) <= total

\* The rows of the output that carry the theme of row i
SameTheme_Rows(i) ==
  {j \in Indices(out.categorizedUrls) :
     out.categorizedUrls[j].ContentTheme = out.categorizedUrls[i].ContentTheme}

SameCompound_Rows(i) ==
  {j \in SameTheme_Rows(i) :
     out.categorizedUrls[j].Entity = out.categorizedUrls[i].Entity}

----------------------------------------------------------------------------
(* C1 *)

----------------------------------------------------------------------------
(* C4 *)

\* C4: the Row Merger preserves rows. categorizedUrls has the length of
\* originalCsvData and its i-th row has the URL, Clicks and Impressions of the
\* i-th input row, classified or not.
C4_RowsPreserved ==
  Done =>
    /\ Len(out.categorizedUrls) = Len(originalCsvData)
    /\ \A i \in Indices(originalCsvData) :
          /\ out.categorizedUrls[i].URL = originalCsvData[i].URL
          /\ out.categorizedUrls[i].Clicks = originalCsvData[i].Clicks
          /\ out.categorizedUrls[i].Impressions = originalCsvData[i].Impressions

\* An unclassified row with fewer clicks precedes a classified row with more
C4_Witness ==
  /\ Done
  /\ Len(originalCsvData) = 2
  /\ originalCsvData[1].URL \notin ItemUrls
  /\ originalCsvData[2].URL \in ItemUrls
  /\ originalCsvData[1].Clicks < originalCsvData[2].Clicks
  /\ Len(out.categorizedUrls) = 2

----------------------------------------------------------------------------
(* C5 *)

\* C5: silent fallback. A row whose URL has no classification gets the labels
\* 'Uncategorized', 'Uncategorized', 'N/A', and the 'Uncategorized' theme group
\* counts it like any row: its articleCount, totalClicks and totalImpressions
\* are those of all rows of that theme, and the row's contribution percentages
\* are taken over these totals.
C5_SilentFallback ==
  Done =>
    \A i \in Indices(originalCsvData) :
      originalCsvData[i].URL \notin ItemUrls =>
        LET r == out.categorizedUrls[i]
            same == SameTheme_Rows(i)
            clicks == SumAt(out.categorizedUrls, same, "Clicks")
            impressions == SumAt(out.categorizedUrls, same, "Impressions")
        IN /\ r.ContentTheme = Uncategorized
           /\ r.Entity = Uncategorized
           /\ r.SubEntity = NotApplicable
           /\ \E k \in Indices(out.categorySummaries) :
                 /\ out.categorySummaries[k].ContentTheme = Uncategorized
                 /\ out.categorySummaries[k].articleCount = Cardinality(same)
                 /\ out.categorySummaries[k].totalClicks = clicks
                 /\ out.categorySummaries[k].totalImpressions = impressions
           /\ clicks > 0 => IsPercentOf(r.Clicks_Contribution_Percentage, r.Clicks, clicks)
           /\ impressions > 0 =>
                 IsPercentOf(r.Impressions_Contribution_Percentage, r.Impressions,
                             impressions)

\* An unclassified row with clicks and impressions stands beside a classified row
C5_Witness ==
  /\ Done
  /\ \E i, j \in Indices(originalCsvData) :
        /\ originalCsvData[i].URL \notin ItemUrls
        /\ originalCsvData[i].Clicks > 0
        /\ originalCsvData[i].Impressions > 0
        /\ originalCsvData[j].URL \in ItemUrls
        /\ out.categorizedUrls[i].Clicks_Contribution_Percentage = 10000

----------------------------------------------------------------------------
(* C6 *)

ObservedThemes ==
  {out.categorizedUrls[i].ContentTheme : i \in Indices(out.categorizedUrls)}
ObservedEntities ==
  {out.categorizedUrls[i].Entity : i \in Indices(out.categorizedUrls)}
ObservedCompoundKeys ==
  {EntityKey(out.categorizedUrls[i].ContentTheme, out.categorizedUrls[i].Entity) :
     i \in Indices(out.categorizedUrls)}
DiscoverThemes ==
  {out.discoverTop100Urls[i].ContentTheme : i \in Indices(out.discoverTop100Urls)}
DiscoverCompoundKeys ==
  {EntityKey(out.discoverTop100Urls[i].ContentTheme, out.discoverTop100Urls[i].Entity) :
     i \in Indices(out.discoverTop100Urls)}

\* The table has one group per key of keys, labelled with the first two pieces
\* of the key, and no empty group
IsCompoundTableOf(table, keys) ==
  /\ Len(table) = Cardinality(keys)
  /\ {<<table[k].ParentTheme, table[k].Entity>> : k \in Indices(table)}
       = {<<Split(key)[1], Split(key)[2]>> : key \in keys}
  /\ \A k \in Indices(table) : table[k].articleCount >= 1

----------------------------------------------------------------------------
(* C7 *)

\* The items that no later item of the list overrides
RECURSIVE KeepLast(_)
KeepLast(items) ==
  IF items = <<>> THEN <<>>
  ELSE IF \E k \in 2..Len(items) : items[k].url = Head(items).url
       THEN KeepLast(Tail(items))
       ELSE <<Head(items)>> \o KeepLast(Tail(items))

\* C7: last-wins on duplicate classifications. Every row whose URL is classified
\* carries the labels of the last item of the list with that url, and the whole
\* output is the one obtained with the overridden items removed from the list.
C7_LastWins ==
  Done =>
    /\ \A i \in Indices(originalCsvData) :
          LET js == {j \in Indices(categorizedResults) :
                       categorizedResults[j].url = originalCsvData[i].URL}
          IN js # {} =>
               LET l == CHOOSE j \in js : \A k \in js : k <= j
               IN /\ out.categorizedUrls[i].ContentTheme
                       = categorizedResults[l].contentTheme
                  /\ out.categorizedUrls[i].Entity = categorizedResults[l].entity
                  /\ out.categorizedUrls[i].SubEntity = categorizedResults[l].subEntity
    /\ out = processCategorizedData(KeepLast(categorizedResults), originalCsvData)

\* Two items classify the URL of a row under different themes and entities
C7_Witness ==
  /\ Done
  /\ Len(categorizedResults) = 2
  /\ categorizedResults[1].url = categorizedResults[2].url
  /\ categorizedResults[1].contentTheme # categorizedResults[2].contentTheme
  /\ categorizedResults[1].entity # categorizedResults[2].entity
  /\ categorizedResults[1].url \in RowUrls
  /\ ObservedThemes = {categorizedResults[2].contentTheme}

----------------------------------------------------------------------------
(* C8 *)

----------------------------------------------------------------------------
(* C9 *)

IsFinite(x) == x # NaN /\ x # Infinity

\* C9: zero-division safety. No averageClicks and no contribution percentage of
\* the output is NaN or infinite; a row whose theme has 0 clicks (impressions)
\* has a clicks (impressions) contribution of 0; a group with totalClicks 0 has
\* averageClicks 0.
C9_ZeroDivisionSafe ==
  Done =>
    /\ \A i \in Indices(out.categorizedUrls) :
          LET r == out.categorizedUrls[i]
          IN /\ IsFinite(r.Clicks_Contribution_Percentage)
             /\ IsFinite(r.Impressions_Contribution_Percentage)
             /\ SumAt(out.categorizedUrls, SameTheme_Rows(i), "Clicks") = 0
                   => r.Clicks_Contribution_Percentage = 0
             /\ SumAt(out.categorizedUrls, SameTheme_Rows(i), "Impressions") = 0
                   => r.Impressions_Contribution_Percentage = 0
    /\ \A table \in {out.categorySummaries, out.subcategorySummaries,
                     out.entitySummaries, out.authorSummaries} :
          \A k \in Indices(table) :
             /\ IsFinite(table[k].averageClicks)
             /\ table[k].totalClicks = 0 => table[k].averageClicks = 0

\* A theme has rows but neither clicks nor, in another theme, impressions
C9_Witness ==
  /\ Done
  /\ \E i, j \in Indices(out.categorizedUrls) :
        /\ SumAt(out.categorizedUrls, SameTheme_Rows(i), "Clicks") = 0
        /\ SumAt(out.categorizedUrls, SameTheme_Rows(j), "Impressions") = 0
  /\ \E k \in Indices(out.categorySummaries) :
        out.categorySummaries[k].totalClicks = 0

----------------------------------------------------------------------------
(* C10 *)

\* C10: empty input. With no rows, whatever the classification list, each of the
\* eight outputs is empty.
C10_EmptyInput ==
  (Done /\ originalCsvData = <<>>) =>
    /\ out.categorizedUrls = <<>>
    /\ out.categorySummaries = <<>>
    /\ out.subcategorySummaries = <<>>
    /\ out.entitySummaries = <<>>
    /\ out.authorSummaries = <<>>
    /\ out.discoverCategorySummaries = <<>>
    /\ out.discoverSubcategorySummaries = <<>>
    /\ out.discoverTop100Urls = <<>>

\* No rows and two classifications have been processed
C10_Witness ==
  /\ Done
  /\ originalCsvData = <<>>
  /\ Len(categorizedResults) = 2

----------------------------------------------------------------------------
(* C2, C3 *)

\* No theme and no entity label of the input contains the substring '::'
LabelsWithoutDelim ==
  \A j \in Indices(categorizedResults) :
     /\ FirstDelim(categorizedResults[j].contentTheme) = 0
     /\ FirstDelim(categorizedResults[j].entity) = 0

TieredTables ==
  <<out.categorySummaries, out.subcategorySummaries, out.entitySummaries,
    out.discoverCategorySummaries, out.discoverSubcategorySummaries>>

TierCount(table, tier) ==
  Cardinality({k \in Indices(table) : table[k].performanceTier = tier})

\* C2: tier disjointness and caps. For labels without '::', in each of the five
\* tiered tables every group carries one tier of top, potential, standard, at
\* most 5 groups are 'top' and at most 5 are 'potential'.
C2_TierCaps ==
  (Done /\ LabelsWithoutDelim) =>
    \A t \in Indices(TieredTables) :
       /\ \A k \in Indices(TieredTables[t]) :
             TieredTables[t][k].performanceTier \in {"top", "potential", "standard"}
       /\ TierCount(TieredTables[t], "top") <= TOP_N
       /\ TierCount(TieredTables[t], "potential") <= TOP_N

\* C3: threshold partition. For labels without '::', in each of the five tiered
\* tables a 'top' group has articleCount > 2 and a 'potential' group has
\* articleCount <= 2.
C3_ThresholdPartition ==
  (Done /\ LabelsWithoutDelim) =>
    \A t \in Indices(TieredTables) :
       \A k \in Indices(TieredTables[t]) :
          /\ TieredTables[t][k].performanceTier = "top"
                => TieredTables[t][k].articleCount > ARTICLE_COUNT_THRESHOLD
          /\ TieredTables[t][k].performanceTier = "potential"
                => TieredTables[t][k].articleCount <= ARTICLE_COUNT_THRESHOLD

----------------------------------------------------------------------------
(* C11 *)

\* The rows of the output that are not in the Discover subset
LeftOut == Range(out.categorizedUrls) \ Range(out.discoverTop100Urls)

\* C11: Discover subset selection. discoverTop100Urls holds min(100, n) of the n
\* enriched rows, each once, ordered by Clicks descending, every row in it has
\* at least the Clicks of every row left out, and categorizedUrls keeps the
\* order of the upload.
C11_DiscoverSelection ==
  Done =>
    /\ Len(out.discoverTop100Urls) = MinOf(DISCOVER_SLICE, Len(originalCsvData))
    /\ Range(out.discoverTop100Urls) \subseteq Range(out.categorizedUrls)
    /\ Cardinality(Range(out.discoverTop100Urls)) = Len(out.discoverTop100Urls)
    /\ \A i, j \in Indices(out.discoverTop100Urls) :
          i < j => out.discoverTop100Urls[i].Clicks >= out.discoverTop100Urls[j].Clicks
    /\ \A r \in LeftOut : \A i \in Indices(out.discoverTop100Urls) :
          out.discoverTop100Urls[i].Clicks >= r.Clicks
    /\ \A i \in Indices(originalCsvData) :
          /\ out.categorizedUrls[i].URL = originalCsvData[i].URL
          /\ out.categorizedUrls[i].Clicks = originalCsvData[i].Clicks

\* More than 100 rows, uploaded with the fewest clicks first, have been
\* processed: rows are left out and the subset is not in upload order
C11_Witness ==
  /\ Done
  /\ Len(originalCsvData) > DISCOVER_SLICE
  /\ LeftOut # {}
  /\ originalCsvData[1].Clicks < originalCsvData[Len(originalCsvData)].Clicks
  /\ out.discoverTop100Urls[1].URL = originalCsvData[Len(originalCsvData)].URL

----------------------------------------------------------------------------
(* C12 *)

\* The rows of the Discover subset with a theme, and with a theme and an entity
DiscoverRowsOfTheme(theme) ==
  {i \in Indices(out.discoverTop100Urls) :
     out.discoverTop100Urls[i].ContentTheme = theme}
DiscoverRowsOfEntity(theme, entity) ==
  {i \in DiscoverRowsOfTheme(theme) : out.discoverTop100Urls[i].Entity = entity}

----------------------------------------------------------------------------
(* C13 *)

DiscoverTables == <<out.discoverCategorySummaries, out.discoverSubcategorySummaries>>

\* The groups of the table that carry the tier are the first min(5, |pool|)
\* groups of the pool in a ranking by totalClicks descending
IsFirstOfPool(table, pool, tier) ==
  LET chosen == {k \in Indices(table) : table[k].performanceTier = tier}
  IN /\ chosen \subseteq pool
     /\ Cardinality(chosen) = MinOf(DISCOVER_TOP_N, Cardinality(pool))
     /\ \A k \in chosen : \A l \in pool \ chosen :
           table[k].totalClicks >= table[l].totalClicks

\* C13: Discover tiering with independent pools. In both Discover tables the
\* 'top' groups are the first min(5, |A|) groups of pool A (articleCount > 2)
\* by totalClicks and the 'potential' groups are the first min(5, |B|) groups of
\* pool B (articleCount <= 2) by totalClicks.
C13_DiscoverPools ==
  Done =>
    \A t \in Indices(DiscoverTables) :
       LET table == DiscoverTables[t]
           poolA == {k \in Indices(table) :
                       table[k].articleCount > DISCOVER_ARTICLE_COUNT_THRESHOLD}
           poolB == {k \in Indices(table) :
                       table[k].articleCount <= DISCOVER_ARTICLE_COUNT_THRESHOLD}
       IN /\ IsFirstOfPool(table, poolA, "top")
          /\ IsFirstOfPool(table, poolB, "potential")

----------------------------------------------------------------------------
(* C14 *)

----------------------------------------------------------------------------
(* C15 *)

\* The rows in the order the permutation p of their indices gives
Permuted(rows, p) == [i \in 1..Len(rows) |-> rows[p[i]]]

\* The groups of the aggregate tables of an output, as sets: the key of each
\* group with its articleCount, totalClicks and totalImpressions
GroupsOf(o) ==
  [themes |-> {<<g.ContentTheme, g.articleCount, g.totalClicks, g.totalImpressions>> :
                 g \in Range(o.categorySummaries)},
   compounds |-> {<<g.ParentTheme, g.Entity, g.articleCount, g.totalClicks,
                    g.totalImpressions>> : g \in Range(o.subcategorySummaries)},
   entities |-> {<<g.Entity, g.articleCount, g.totalClicks>> :
                   g \in Range(o.entitySummaries)},
   authors |-> {<<g.authorName, g.articleCount, g.totalClicks, g.totalImpressions>> :
                  g \in Range(o.authorSummaries)}]

----------------------------------------------------------------------------
(* C16 *)

ObservedPairs ==
  {<<out.categorizedUrls[i].ContentTheme, out.categorizedUrls[i].Entity>> :
     i \in Indices(out.categorizedUrls)}
DiscoverPairs ==
  {<<out.discoverTop100Urls[i].ContentTheme, out.discoverTop100Urls[i].Entity>> :
     i \in Indices(out.discoverTop100Urls)}

\* The table has one group per <<theme, entity>> pair of the rows, reported
\* under that theme and that entity, and counts the rows of the pair
IsPairTableOf(table, rows, pairs) ==
  /\ Len(table) = Cardinality(pairs)
  /\ \A k \in Indices(table) :
        /\ <<table[k].ParentTheme, table[k].Entity>> \in pairs
        /\ table[k].articleCount
             = Cardinality({i \in Indices(rows) :
                              /\ rows[i].ContentTheme = table[k].ParentTheme
                              /\ rows[i].Entity = table[k].Entity})

\* C16: compound keys never collide. For arbitrary labels, two rows are in the
\* same theme+entity group exactly if they have the same ContentTheme and the
\* same Entity, and every row of subcategorySummaries and of
\* discoverSubcategorySummaries reports the ContentTheme and the Entity of the
\* rows it aggregates.
C16_KeysNeverCollide ==
  Done =>
    /\ IsPairTableOf(out.subcategorySummaries, out.categorizedUrls, ObservedPairs)
    /\ IsPairTableOf(out.discoverSubcategorySummaries, out.discoverTop100Urls,
                     DiscoverPairs)

----------------------------------------------------------------------------
(* C17, C18 *)

\* C17: author-level tiering. Every group of authorSummaries carries one
\* performance tier of top, potential, standard.
C17_AuthorTiering ==
  Done =>
    \A k \in Indices(out.authorSummaries) :
       /\ "performanceTier" \in DOMAIN out.authorSummaries[k]
       /\ out.authorSummaries[k].performanceTier \in {"top", "potential", "standard"}

\* C18: conservation for the author grouping. The articleCount of the groups of
\* authorSummaries sums to the number of input rows and their totalClicks sums
\* to the Clicks of the input rows, also when rows have an empty or missing
\* 'Author Name'.
C18_AuthorConservation ==
  Done =>
    /\ Total(out.authorSummaries, "articleCount") = Len(originalCsvData)
    /\ Total(out.authorSummaries, "totalClicks") = Total(originalCsvData, "Clicks")

----------------------------------------------------------------------------
(* C20 *)

\* C20: source rows are validated. Every row parseCsv returns has a non-empty
\* URL and numeric Clicks and Impressions that are both >= 0.
C20_RowsValidated ==
  (pc = "parsed" /\ ~parsed.threw) =>
    \A i \in Indices(parsed.rows) :
       /\ parsed.rows[i].URL # <<>>
       /\ parsed.rows[i].Clicks >= 0
       /\ parsed.rows[i].Impressions >= 0

----------------------------------------------------------------------------
\* The requests of the upload in flight that failed
FailedRequests ==
  {r \in 1..Len(job.requests) : job.requests[r].outcome = "failed"}

\* The upload holds a failed batch: the failed request is the last one sent,
\* categorizeUrlsFromCsv has rejected, processCategorizedData has not been
\* called since the upload began, and nothing of the upload is published
AbortedUpstream ==
  \A r \in FailedRequests :
    /\ r = Len(job.requests)
    /\ job.stage = "rejected"
    /\ Len(calls) = job.callsBefore
    /\ ~app.isLoading
    /\ app.categorizedData = <<>>
    /\ app.analysisData = <<>>
    /\ app.subcategoryAnalysisData = <<>>

\* The step on which a batch fails leaves an error message on the screen
FailureReported ==
  (FailedRequests = {} /\ FailedRequests' # {})
    => (app'.error # NoError /\ ~app'.isLoading /\ app'.step = "upload")

\* C19: if the classifier call fails for a batch k, categorizeUrlsFromCsv
\* rejects, no batch after k is requested, the items of batches 1..k-1 are
\* dropped, processCategorizedData is not called for that upload, and the
\* application is left with an error message, isLoading false, and no
\* categorizedData or analysisData of that upload.
C19_AllOrNothing == []AbortedUpstream /\ [][FailureReported]_vars

\* The second of three batches has failed after the first one succeeded
C19_Witness ==
  /\ job.stage = "rejected"
  /\ TotalBatches(job.data) = 3
  /\ Len(job.requests) = 2
  /\ job.requests[1].outcome = "ok"
  /\ job.requests[2].outcome = "failed"
  /\ Len(job.allCategorizedItems) = BATCH_SIZE
  /\ app.error # NoError

----------------------------------------------------------------------------
(* C22 *)

\* The rows of the upload carry no negative Clicks and no negative Impressions
NonNegativeRows ==
  \A i \in Indices(originalCsvData) :
     originalCsvData[i].Clicks >= 0 /\ originalCsvData[i].Impressions >= 0

\* C22: percentage bounds. For non-negative Clicks and Impressions, both
\* contribution percentages of every output row lie between 0 and 100
\* (0 and 10000 hundredths).
C22_PercentageBounds ==
  (Done /\ NonNegativeRows) =>
    \A i \in Indices(out.categorizedUrls) :
       /\ out.categorizedUrls[i].Clicks_Contribution_Percentage \in 0..10000
       /\ out.categorizedUrls[i].Impressions_Contribution_Percentage \in 0..10000

\* Two rows share a theme: one has a part of its clicks, one all its impressions
C22_Witness ==
  /\ Done
  /\ NonNegativeRows
  /\ \E i, j \in Indices(out.categorizedUrls) :
        /\ i # j
        /\ j \in SameTheme_Rows(i)
        /\ out.categorizedUrls[i].Clicks_Contribution_Percentage \in 1..9999
        /\ out.categorizedUrls[j].Impressions_Contribution_Percentage = 10000

----------------------------------------------------------------------------
(* C23 *)

AverageTables == <<out.categorySummaries, out.subcategorySummaries, out.entitySummaries>>

\* Pool A and pool B of a table
PoolA(table) ==
  {k \in Indices(table) : table[k].articleCount > ARTICLE_COUNT_THRESHOLD}
PoolB(table) ==
  {k \in Indices(table) : table[k].articleCount <= ARTICLE_COUNT_THRESHOLD}

\* The groups of the table that carry the tier are min(5, |pool|) groups of the
\* pool, none of them with a smaller averageClicks than a group of the pool
\* that does not carry it
IsTopNOfPool(table, pool, tier) ==
  LET chosen == {k \in Indices(table) : table[k].performanceTier = tier}
  IN /\ chosen \subseteq pool
     /\ Cardinality(chosen) = MinOf(TOP_N, Cardinality(pool))
     /\ \A k \in chosen : \A l \in pool \ chosen :
           table[k].averageClicks >= table[l].averageClicks

\* C23: top-N selection by averageClicks. For labels without '::', in
\* categorySummaries, subcategorySummaries and entitySummaries the 'top' groups
\* are the first min(5, |A|) groups of pool A (articleCount > 2) by averageClicks
\* descending, the 'potential' groups the first min(5, |B|) groups of pool B
\* (articleCount <= 2), and every other group is 'standard'.
C23_TopNByAverage ==
  (Done /\ LabelsWithoutDelim) =>
    \A t \in Indices(AverageTables) :
       /\ IsTopNOfPool(AverageTables[t], PoolA(AverageTables[t]), "top")
       /\ IsTopNOfPool(AverageTables[t], PoolB(AverageTables[t]), "potential")
       /\ \A k \in Indices(AverageTables[t]) :
             AverageTables[t][k].performanceTier \in {"top", "potential", "standard"}

----------------------------------------------------------------------------
(* C24 *)

\* The upload of the example: a (10 clicks) and b (30) in theme X, c (5) in Y
IsExampleUpload ==
  /\ originalCsvData = MixedRows(<<10, 30, 5>>, "none")
  /\ categorizedResults = MixedItems(<< <<"X">>, <<"X">>, <<"Y">> >>)

\* The fields of a theme group the example names
ThemeGroup(s) ==
  [ContentTheme |-> s.ContentTheme, articleCount |-> s.articleCount,
   totalClicks |-> s.totalClicks, averageClicks |-> s.averageClicks,
   performanceTier |-> s.performanceTier]

\* C24: no backfill between pools. In the theme table, when pool A
\* (articleCount > 2) has fewer than 5 groups the 'top' groups are exactly the
\* groups of pool A, and when pool B has fewer than 5 groups the 'potential'
\* groups are exactly the groups of pool B.  For rows a (10 clicks), b (30) in
\* theme X and c (5) in theme Y the table is X with articleCount 2, totalClicks
\* 40, averageClicks 20, 'potential' and Y with articleCount 1, totalClicks 5,
\* averageClicks 5, 'potential'.
C24_NoBackfill ==
  Done =>
    LET table == out.categorySummaries
    IN /\ Cardinality(PoolA(table)) < TOP_N =>
            \A k \in Indices(table) :
               table[k].performanceTier = "top" <=> k \in PoolA(table)
       /\ Cardinality(PoolB(table)) < TOP_N =>
            \A k \in Indices(table) :
               table[k].performanceTier = "potential" <=> k \in PoolB(table)
       /\ IsExampleUpload =>
            /\ Len(table) = 2
            /\ {ThemeGroup(table[k]) : k \in Indices(table)} =
                 {[ContentTheme |-> <<"X">>, articleCount |-> 2, totalClicks |-> 40,
                   averageClicks |-> 2000, performanceTier |-> "potential"],
                  [ContentTheme |-> <<"Y">>, articleCount |-> 1, totalClicks |-> 5,
                   averageClicks |-> 500, performanceTier |-> "potential"]}

\* The upload of the example has been processed
C24_Witness ==
  /\ Done
  /\ IsExampleUpload
  /\ Len(out.categorySummaries) = 2

----------------------------------------------------------------------------
(* C25 *)

CompoundTables == <<out.subcategorySummaries, out.discoverSubcategorySummaries>>

\* A label of the upload contains the delimiter '::'
SomeLabelWithDelim ==
  \E j \in Indices(categorizedResults) :
     \/ FirstDelim(categorizedResults[j].contentTheme) # 0
     \/ FirstDelim(categorizedResults[j].entity) # 0

\* C25: threshold partition of the compound tables under arbitrary labels.
\* Whatever the theme and entity labels, those containing '::' included, every
\* row of subcategorySummaries and of discoverSubcategorySummaries tagged 'top'
\* has articleCount > 2 and every row tagged 'potential' has articleCount <= 2.
C25_CompoundPartition ==
  (Done /\ SomeLabelWithDelim) =>
    \A t \in Indices(CompoundTables) :
       \A k \in Indices(CompoundTables[t]) :
          /\ CompoundTables[t][k].performanceTier = "top"
                => CompoundTables[t][k].articleCount > ARTICLE_COUNT_THRESHOLD
          /\ CompoundTables[t][k].performanceTier = "potential"
                => CompoundTables[t][k].articleCount <= ARTICLE_COUNT_THRESHOLD

----------------------------------------------------------------------------
(* C26 *)

SummaryLists ==
  <<out.categorySummaries, out.subcategorySummaries, out.entitySummaries,
    out.authorSummaries, out.discoverCategorySummaries,
    out.discoverSubcategorySummaries>>

\* C26: output ordering. Each of the six summary lists is sorted by totalClicks
\* in non-increasing order, whatever the tiers of its rows and the metric that
\* ranked them.
C26_SortedByTotalClicks ==
  Done =>
    \A t \in Indices(SummaryLists) :
       \A k \in Indices(SummaryLists[t]) : \A l \in Indices(SummaryLists[t]) :
          k < l => SummaryLists[t][k].totalClicks >= SummaryLists[t][l].totalClicks

\* The theme with the larger total has the smaller average and fewer articles
\* than the pool of 'top' needs, and the author with the larger total comes
\* later in the upload
C26_Witness ==
  /\ Done
  /\ Len(out.categorySummaries) = 2
  /\ out.categorySummaries[1].totalClicks > out.categorySummaries[2].totalClicks
  /\ out.categorySummaries[1].averageClicks < out.categorySummaries[2].averageClicks
  /\ out.categorySummaries[1].performanceTier = "potential"
  /\ Len(out.authorSummaries) = 2
  /\ out.authorSummaries[1].authorName = "bob"
  /\ out.authorSummaries[1].totalClicks > out.authorSummaries[2].totalClicks

----------------------------------------------------------------------------
\* The least number of batches of BATCH_SIZE rows that hold n rows
CeilOfBatches(n) == CHOOSE c \in 0..n : BATCH_SIZE * c >= n /\ BATCH_SIZE * (c - 1) < n

\* The URLs of rows 200(k-1) .. min(200k, n)-1 of the input, counted from 0
UrlsOfBatch(data, k) ==
  [m \in 1..(MinOf(BATCH_SIZE * k, Len(data)) - BATCH_SIZE * (k - 1)) |->
     data[BATCH_SIZE * (k - 1) + m].URL]

\* The number of places of all requests at which the URL of row m was sent
TimesSent(requests, url) ==
  Cardinality({kp \in UNION {{<<k, p>> : p \in 1..Len(requests[k].urls)} :
                               k \in 1..Len(requests)} :
                 requests[kp[1]].urls[kp[2]] = url})

\* C27: (batching protocol) a call of categorizeUrlsFromCsv with a key and
\* n > 0 rows has sent ceil(n/200) requests when it returns; a request is
\* sent only when every request before it was answered; request k carries
\* the URLs of rows 200(k-1)..min(200k, n)-1 in input order, so every row's
\* URL is sent exactly once; onProgress was called once for every request,
\* with current = 1, 2, ... and total = ceil(n/200); the list returned is
\* the answers in batch order.  With n = 0 no request is made and the list
\* returned is empty.
C27_BatchingProtocol ==
  (pc = "batch" /\ job.stage \in {"awaiting", "resolved", "rejected"}
     /\ job.apiKey # NoKey) =>
    LET n == Len(job.data)
        total == CeilOfBatches(n)
        sent == Len(job.requests)
    IN /\ n = 0 => /\ job.stage = "resolved"
                   /\ job.requests = <<>>
                   /\ job.progress = <<>>
                   /\ job.allCategorizedItems = <<>>
       /\ n > 0 =>
            /\ sent \in 1..total
            /\ job.stage = "resolved" => sent = total
            /\ \A k \in 1..sent :
                  /\ k < sent => job.requests[k].outcome = "ok"
                  /\ job.requests[k].outcome = "pending"
                       <=> (k = sent /\ job.stage = "awaiting")
                  /\ job.requests[k].urls = UrlsOfBatch(job.data, k)
            /\ job.progress = [k \in 1..sent |-> [current |-> k, total |-> total]]
            /\ job.stage = "resolved" =>
                  /\ \A m \in 1..n : TimesSent(job.requests, job.data[m].URL) = 1
                  /\ job.allCategorizedItems
                       = [m \in 1..n |->
                            ClassifiedAs(job.data[m].URL, ((m - 1) % BATCH_SIZE) + 1)]

\* A call with two full batches and one row more has returned after three
\* requests
C27_Witness ==
  /\ pc = "batch"
  /\ job.stage = "resolved"
  /\ Len(job.data) = 2 * BATCH_SIZE + 1
  /\ Len(job.requests) = 3
  /\ Len(job.allCategorizedItems) = 2 * BATCH_SIZE + 1

----------------------------------------------------------------------------
\* No key is held under 'gemini-api-key' in window.localStorage
KeyNotStored ==
  ~localStorage["gemini-api-key"].present
    \/ localStorage["gemini-api-key"].value = NoKey

\* C21: (session-only key) whatever is done, the submitted API key is never
\* written to window.localStorage, and after the page is loaded again the
\* application has no key, so that the key-entry screen is shown
C21_KeySessionOnly ==
  [][KeyNotStored' /\ (Reload => app'.apiKey = NoKey)]_vars

----------------------------------------------------------------------------
\* The state handleReset leaves: no tables, no insights, the step 'upload'
\* (or 'history', which the user can open at any time)
IsReset(a) ==
  /\ a.categorizedData = <<>>
  /\ a.analysisData = <<>>
  /\ a.subcategoryAnalysisData = <<>>
  /\ a.insights = ""
  /\ a.step \in {"upload", "history"}

\* An upload is in flight and handleReset has run since it began: the file
\* handleFileAnalysis had set is cleared
ResetDuringUpload ==
  /\ job.stage \in {"reading", "awaiting"}
  /\ app.currentFile = ""

\* C28: (reset is not undone) once Start Over has run while an upload is in
\* flight, the tables and the insights stay empty and the step stays
\* 'upload', whatever handler runs next, the completion of the upload
\* included
C28_ResetNotUndone ==
  [][ResetDuringUpload => IsReset(app')]_vars

----------------------------------------------------------------------------
\* user, model, user, model, ...
Alternates(chatHistory) ==
  /\ Len(chatHistory) % 2 = 0
  /\ \A i \in 1..Len(chatHistory) :
        chatHistory[i].role = IF i % 2 = 1 THEN "user" ELSE "model"

\* A step that sends a message appends it and sets isChatLoading
SendAppends ==
  Len(chatRequests') > Len(chatRequests) =>
    (/\ app'.isChatLoading
     /\ \E input \in MessageSet :
           app'.chatHistory = Append(app.chatHistory, UserMessage(Trim(input))))

\* An answer leaves the pre-send history, the user message and the reply
ReplyCompletes ==
  ChatReplies =>
    (/\ ~app'.isChatLoading
     /\ \E i \in 1..Len(chatRequests) :
           app'.chatHistory
             = chatRequests[i].chatHistory
                 \o <<UserMessage(chatRequests[i].question), ModelMessage(<<"a">>)>>)

\* A failure leaves the pre-send history and an error
FailureReverts ==
  ChatFails =>
    (/\ ~app'.isChatLoading
     /\ app'.error # NoError
     /\ \E i \in 1..Len(chatRequests) :
           app'.chatHistory = chatRequests[i].chatHistory)

\* At most one request is in flight, and with none in flight the history
\* alternates
OneChatRequest ==
  /\ Len(chatRequests) <= 1
  /\ chatRequests = <<>> => Alternates(app.chatHistory)

\* C29: (chat is transactional) sending appends the user message and sets
\* isChatLoading; an answer leaves the pre-send history, the user message
\* and the reply; a failure leaves exactly the pre-send history and an
\* error; both end with isChatLoading false; at most one request is in
\* flight, and with none in flight the history alternates user, model
C29_ChatTransactional ==
  /\ []OneChatRequest
  /\ [][SendAppends /\ ReplyCompletes /\ FailureReverts]_vars

\* A second message failed after a first was answered: the first exchange
\* is what is left, with the error
C29_Witness ==
  /\ chatRequests = <<>>
  /\ Len(app.chatHistory) = 2
  /\ ~app.isChatLoading
  /\ app.error = "AI chat failed. Failed to get a response from the AI. Please check your API key and try again."

----------------------------------------------------------------------------
\* C30: (wizard navigation) whatever handlers have run and completed, the
\* step is a completed step or 'history', 'upload' is a completed step, and
\* when 'insights' is a completed step there are insights
C30_WizardNavigation ==
  pc = "wizard" =>
    /\ app.step \in app.completedSteps \/ app.step = "history"
    /\ "upload" \in app.completedSteps
    /\ "insights" \in app.completedSteps => app.insights # ""

\* An upload completed after Start Over had run: the step is 'results'
\* without a file
C30_Witness ==
  /\ pc = "wizard"
  /\ job.stage = "resolved"
  /\ app.currentFile = ""
  /\ app.step = "results"
  /\ app.completedSteps = {"upload", "results"}

====
